---- MODULE Spec2Model ----
(***************************************************************************)
(* easy-rbac-plus: the RBAC classes of src/src/rbac.ts (lines 16-503).      *)
(*                                                                         *)
(* A string of the program is a sequence of one-character strings, so      *)
(* that wildcardRegex and RegExp.test work on characters.  Role names are  *)
(* plain strings: they are only ever used as keys.                         *)
(*                                                                         *)
(* A caller-supplied function (when, filter, project, globalWhen, ...) is  *)
(* a name; what it returns for given params is tabulated in EvalWhen and   *)
(* EvalGenerator.  "undefined" is JavaScript's undefined.                  *)
(***************************************************************************)
EXTENDS Integers, Sequences, FiniteSets, TLC

VARIABLES
    config,     \* the roles object handed to the constructor
    options,    \* this.options
    engine,     \* "new" before the constructor ran, then "ready" or "threw";
                \* "creating" while RBAC.create awaits the roles; for the
                \* default export "pending" while this.init is pending and
                \* "failed" once it has rejected
    roles,      \* this.roles, the compiled role map
    frames,     \* the invocations of can() of the call in flight, oldest first
    version,    \* the class in use: "named" is export class RBAC (rbac.ts:251),
                \* "default" is export default class RBAC (rbac.ts:16)
    source,     \* how the application holds the roles object: "mapping" for
                \* the object itself, "promise" for a promise of it,
                \* "factory" for a function returning such a promise
    inits       \* how often the roles function has been called (factory) and
                \* how often buildRoleMap has run (compile) for this engine

vars == <<config, options, engine, roles, frames, version, source, inits>>

----------------------------------------------------------------------------
(* Bounds *)

\* Depth of nested synchronous can() invocations the call stack holds.
MaxDepth == 6

\* Longest can list of the generated single-role configurations.
MaxCan == 2

\* The most calls of can by the application that are in flight together.
MaxCalls == 2

----------------------------------------------------------------------------
(* Strings *)

Undefined == "undefined"

OpXY == <<"x", ":", "y">>
OpXZ == <<"x", ":", "z">>
OpX == <<"x", ":">>
OpZXY == <<"z", "x", ":", "y">>
OpW == <<"w">>
OpToString == <<"t", "o", "S", "t", "r", "i", "n", "g">>
OpXYZ == <<"x", ":", "y", ":", "z">>
OpXDotY == <<"x", ".", "y">>
OpXXY == <<"x", "x", "y">>
OpXLineY == <<"x", "\n", "y">>
PatX == <<"x", ":", "*">>
PatAll == <<"*">>
PatXDot == <<"x", ".", "*">>
PatXStarY == <<"x", "*", "y">>
PatStarY == <<"*", "y">>
PatXStarStar == <<"x", "*", "*">>

\* Names every plain object inherits from Object.prototype; roleMapItem.can
\* is created as the literal {} (rbac.ts:378), so can[name] finds them.
ObjectPrototypeKeys == {OpToString}

\* string.includes('*')
hasWildcard(string) == \E i \in 1..Len(string) : string[i] = "*"

\* string.replace(/\*/g, '.*')
RECURSIVE ReplaceStars(_)
ReplaceStars(string) ==
    IF string = <<>> THEN <<>>
    ELSE IF Head(string) = "*" THEN <<".", "*">> \o ReplaceStars(Tail(string))
    ELSE <<Head(string)>> \o ReplaceStars(Tail(string))

\* new RegExp('^' + string.replace(/\*/g, '.*')): the source of the regular
\* expression after the '^'.  The characters used in names are letters, ':',
\* '.' and '*'; of these '.' and '*' are the ones a RegExp reads as operators.
wildcardRegex(string) == ReplaceStars(string)

\* One regular-expression atom against one character: '.' is any character
\* but a line terminator, anything else is itself.
AtomMatches(atom, ch) == IF atom = "." THEN ch # "\n" ELSE atom = ch

\* Does the regular expression from position i on match s from position j on,
\* with no anchor at the end?
RECURSIVE MatchFrom(_, _, _, _)
MatchFrom(rx, i, s, j) ==
    IF i > Len(rx) THEN TRUE
    ELSE IF i < Len(rx) /\ rx[i + 1] = "*"
         THEN \/ MatchFrom(rx, i + 2, s, j)
              \/ /\ j <= Len(s)
                 /\ AtomMatches(rx[i], s[j])
                 /\ MatchFrom(rx, i, s, j + 1)
    ELSE /\ j <= Len(s)
         /\ AtomMatches(rx[i], s[j])
         /\ MatchFrom(rx, i + 1, s, j + 1)

\* wildcard.test(operation), the expression anchored at the start by '^'
RegExpTest(rx, operation) == MatchFrom(rx, 1, operation, 1)

----------------------------------------------------------------------------
(* Caller-supplied functions and payloads *)

\* params: the engine only forwards it.
ParamsSet == {[flag |-> TRUE], [flag |-> FALSE]}

\* A Filter or Projection object: its own keys and values.  A payload that a
\* merge reducer returned records the reducer's arguments instead.
Obj(fields) == [tag |-> "obj", fields |-> fields, parts |-> <<>>, op |-> <<>>]
Merged(parts, operation) == [tag |-> "merged", fields |-> {}, parts |-> parts, op |-> operation]

\* An optional payload: <<>> is undefined, <<p>> is the object p.
None == <<>>
Some(p) == <<p>>

Returns(v) == [throws |-> FALSE, value |-> v, error |-> ""]
Throws(e) == [throws |-> TRUE, value |-> FALSE, error |-> e]

\* ConditionEvaluator: what fn(params) settles to.
EvalWhen(fn, params) ==
    CASE fn = "wFlag" -> Returns(params.flag)
      [] fn = "wNotFlag" -> Returns(~params.flag)
      [] fn = "wThrow" -> Throws("when failed")
      [] OTHER -> Returns(TRUE)

ReturnsPayload(v) == [throws |-> FALSE, value |-> v, error |-> ""]
ThrowsPayload(e) == [throws |-> TRUE, value |-> None, error |-> e]

\* QueryFilterGenerator / ProjectionGenerator: what fn(params) settles to.
EvalGenerator(fn, params) ==
    CASE fn = "gA" -> ReturnsPayload(Some(Obj({<<"k1", 1>>})))
      [] fn = "gB" -> ReturnsPayload(Some(Obj({<<"k1", 2>>, <<"k2", 2>>})))
      [] fn = "gFlag" -> ReturnsPayload(IF params.flag THEN None ELSE Some(Obj({<<"k2", 3>>})))
      [] fn = "gThrow" -> ThrowsPayload("generator failed")
      [] OTHER -> ReturnsPayload(None)

\* The value false, put where a function is expected.
FalseValue == "false"

\* A value in a condition: undefined and false are falsy, a function and
\* any other object ("notFn") are truthy.
Truthy(v) == v \notin {Undefined, FalseValue}

\* typeof f === 'function'
IsFunction(f) == f \notin {Undefined, FalseValue, "notFn"}

\* { ...global, ...local } with the operands exchanged
SpreadGlobalWins(global, local) ==
    LET g == IF global = None THEN {} ELSE global[1].fields
        l == IF local = None THEN {} ELSE local[1].fields
    IN Obj({kv \in l : ~\E gv \in g : gv[1] = kv[1]} \cup g)
\* { ...global, ...local }: the keys of both, the local value where both have the key
Spread(global, local) ==
    LET g == IF global = None THEN {} ELSE global[1].fields
        l == IF local = None THEN {} ELSE local[1].fields
    IN Obj({kv \in g : ~\E lv \in l : lv[1] = kv[1]} \cup l)

\* global || local ? { ...global, ...local } : undefined
MergeOverlay(global, local) ==
    IF global # None \/ local # None THEN Some(Spread(global, local)) ELSE None

----------------------------------------------------------------------------
(* The roles configuration and its compilation *)

\* A permission of a can list: the string shorthand or a PermissionObject.
StringPermission(name) ==
    [kind |-> "string", name |-> name, when |-> Undefined, filter |-> Undefined, project |-> Undefined]
PermissionObject(name, when, filter, project) ==
    [kind |-> "object", name |-> name, when |-> when, filter |-> filter, project |-> project]

\* One key of the roles object with its value; the roles object is the
\* sequence of its keys in insertion order (the order of Object.keys).
RoleObject(role, can, inherits) == [role |-> role, can |-> can, inherits |-> inherits]

\* Keys every plain object inherits, as role names: roles[name] finds them
\* on the roles object although they are no keys of it.
RolePrototypeKeys == {"toString"}

\* roles[name], tested for truthiness (rbac.ts:391)
HasRoleProperty(cfg, name) ==
    \/ \E i \in 1..Len(cfg) : cfg[i].role = name
    \/ name \in RolePrototypeKeys

\* What a compiled entry keeps of a permission.
EntryOf(name, when, filter, project) ==
    [name |-> name, when |-> when, filter |-> filter, project |-> project]

\* An assignment that leaves a key that is there as it is.
SetCanFirstWins(can, entry) ==
    IF \E i \in 1..Len(can) : can[i].name = entry.name THEN can ELSE Append(can, entry)

\* roleMapItem.can[name] = entry: a later assignment to the same key replaces
\* the earlier value.
SetCan(can, entry) ==
    IF \E i \in 1..Len(can) : can[i].name = entry.name
    THEN [i \in 1..Len(can) |-> IF can[i].name = entry.name THEN entry ELSE can[i]]
    ELSE Append(can, entry)

Compiled(item) == [error |-> "", item |-> item]
CompileError(e, item) == [error |-> e, item |-> item]

\* The body of roleObject.can.forEach (rbac.ts:402-430) for one permission.
AddPermission(item, permission) ==
    IF permission.kind = "string" THEN
        IF hasWildcard(permission.name)
        THEN Compiled([item EXCEPT !.canWildcards =
                 Append(@, [wildcard |-> wildcardRegex(permission.name),
                            name |-> permission.name, when |-> Undefined,
                            filter |-> Undefined, project |-> Undefined])])
        ELSE Compiled([item EXCEPT !.can =
                 SetCan(@, EntryOf(permission.name, Undefined, Undefined, Undefined))])
    ELSE IF permission.kind = "object" THEN
        IF permission.name = <<>> THEN CompileError("name is missing on permission object", item)
        ELSE IF Truthy(permission.when) /\ ~IsFunction(permission.when)
            THEN CompileError("when type is not a function", item)
        ELSE IF Truthy(permission.filter) /\ ~IsFunction(permission.filter)
            THEN CompileError("filter type is not a function", item)
        ELSE IF Truthy(permission.project) /\ ~IsFunction(permission.project)
            THEN CompileError("project is not a function", item)
        ELSE IF hasWildcard(permission.name)
        THEN Compiled([item EXCEPT !.canWildcards =
                 Append(@, [wildcard |-> wildcardRegex(permission.name),
                            name |-> permission.name, when |-> permission.when,
                            filter |-> permission.filter, project |-> permission.project])])
        ELSE Compiled([item EXCEPT !.can =
                 SetCan(@, EntryOf(permission.name, permission.when,
                                   permission.filter, permission.project))])
    ELSE CompileError("Unexpected permission type", item)

\* roleObject.can.forEach from permission i on
RECURSIVE AddPermissions(_, _, _)
AddPermissions(item, can, i) ==
    IF i > Len(can) THEN Compiled(item)
    ELSE LET r == AddPermission(item, can[i])
         IN IF r.error # "" THEN r ELSE AddPermissions(r.item, can, i + 1)

\* The body of Object.keys(roles).forEach (rbac.ts:376-433) for one role:
\* the inherits check, then the can list.
BuildRoleMapItem(cfg, roleObject) ==
    LET item == [can |-> <<>>, canWildcards |-> <<>>, inherits |-> roleObject.inherits]
    IN IF \E i \in 1..Len(roleObject.inherits) : ~HasRoleProperty(cfg, roleObject.inherits[i])
       THEN CompileError("Undefined inheritance role", item)
       ELSE AddPermissions(item, roleObject.can, 1)

\* buildRoleMap from key i on; map is this.roles so far.  A throw leaves in
\* this.roles the roles set before it.
RECURSIVE buildRoleMap(_, _, _)
buildRoleMap(cfg, i, map) ==
    IF i > Len(cfg) THEN [error |-> "", roles |-> map]
    ELSE LET r == BuildRoleMapItem(cfg, cfg[i])
         IN IF r.error # "" THEN [error |-> r.error, roles |-> map]
            ELSE buildRoleMap(cfg, i + 1, Append(map, [role |-> cfg[i].role, item |-> r.item]))

\* this.roles.get(role): the index of the role in the map, 0 for undefined
RolesGet(map, role) ==
    IF \E i \in 1..Len(map) : map[i].role = role
    THEN CHOOSE i \in 1..Len(map) : map[i].role = role
    ELSE 0

----------------------------------------------------------------------------
(* can(): results, lookups and the two ways a decision is computed *)

\* The role argument of can(): a role name, an array of role names, or a
\* value that is neither (rbac.ts:297, 324).
Role(name) == [kind |-> "string", name |-> name, list |-> <<>>]
RoleArray(list) == [kind |-> "array", name |-> "", list |-> list]
NotARole == [kind |-> "other", name |-> "", list |-> <<>>]

\* An operation argument that is no string (rbac.ts:326).
NotAString == <<"#number">>

Pending == [kind |-> "pending", permission |-> FALSE, filter |-> None, project |-> None, error |-> ""]
Decision(permission, filter, project) ==
    [kind |-> "decision", permission |-> permission, filter |-> filter, project |-> project, error |-> ""]
Rejection(e) == [kind |-> "error", permission |-> FALSE, filter |-> None, project |-> None, error |-> e]

\* { permission: false }
Deny == Decision(FALSE, None, None)

ErrMergeFilters == "Multiple roles with multiple filter apply. Define mergeFilters() function in RBAC options."
ErrMergeProjections == "Multiple roles with multiple project apply. Define mergeProject() function in RBAC options."
ErrInternal == "something went wrong"
ErrStack == "RangeError: Maximum call stack size exceeded"

\* The value an entry lookup yields, and where it came from: an own key of
\* roleMapItem.can ("exact"), a member of Object.prototype ("prototype"), an
\* element of canWildcards ("wildcard"), or undefined ("none").
Found(src, name, when, filter, project) ==
    [src |-> src, name |-> name, when |-> when, filter |-> filter, project |-> project]
NotFound == Found("none", <<>>, Undefined, Undefined, Undefined)

\* roleMapItem.can[operation]: own keys first, then the prototype chain of
\* the object literal.  No member of Object.prototype has a when, filter or
\* project property.
CanGet(item, operation) ==
    IF \E i \in 1..Len(item.can) : item.can[i].name = operation
    THEN LET e == item.can[CHOOSE i \in 1..Len(item.can) : item.can[i].name = operation]
         IN Found("exact", e.name, e.when, e.filter, e.project)
    ELSE IF operation \in ObjectPrototypeKeys
    THEN Found("prototype", operation, Undefined, Undefined, Undefined)
    ELSE NotFound

\* roleMapItem.canWildcards.find(({ wildcard }) => wildcard.test(operation))
WildcardFind(item, operation) ==
    LET hits == {i \in 1..Len(item.canWildcards) : RegExpTest(item.canWildcards[i].wildcard, operation)}
    IN IF hits = {} THEN NotFound
       ELSE LET i == CHOOSE k \in hits : \A m \in hits : k <= m
                w == item.canWildcards[i]
            IN Found("wildcard", w.name, w.when, w.filter, w.project)

\* The test of rbac.ts:333: the operation is not defined at this level.
NoMatch(item, operation) ==
    /\ CanGet(item, operation).src = "none"
    /\ WildcardFind(item, operation).src = "none"

\* rbac.ts:341: roleMapItem.can[operation] || roleMapItem.canWildcards.find(...)
OperationCanExactOnly(item, operation) == CanGet(item, operation)
OperationCanWildcardFirst(item, operation) ==
    IF WildcardFind(item, operation).src # "none" THEN WildcardFind(item, operation)
    ELSE CanGet(item, operation)
OperationCan(item, operation) ==
    IF CanGet(item, operation).src # "none" THEN CanGet(item, operation)
    ELSE WildcardFind(item, operation)

\* The functions rbac.ts:344-349 call, in the order they are called.
InvokedFunctions(oc, opts) ==
    (IF IsFunction(oc.when) THEN <<"when">> ELSE <<>>)
    \o (IF IsFunction(opts.globalWhen) THEN <<"globalWhen">> ELSE <<>>)
    \o (IF IsFunction(oc.filter) THEN <<"filter">> ELSE <<>>)
    \o (IF IsFunction(opts.globalFilter) THEN <<"globalFilter">> ELSE <<>>)
    \o (IF IsFunction(oc.project) THEN <<"project">> ELSE <<>>)
    \o (IF IsFunction(opts.globalProject) THEN <<"globalProject">> ELSE <<>>)

\* What each of the six promises of rbac.ts:344-349 settles to.
WhenOutcome(f, params) == IF IsFunction(f) THEN EvalWhen(f, params) ELSE Returns(TRUE)
GeneratorOutcome(f, params) == IF IsFunction(f) THEN EvalGenerator(f, params) ELSE ReturnsPayload(None)

\* The errors of the two conditions alone.
SingleErrorsWhenOnly(oc, opts, params) ==
    LET ErrorOf(o) == IF o.throws THEN {o.error} ELSE {}
    IN ErrorOf(WhenOutcome(oc.when, params)) \cup ErrorOf(WhenOutcome(opts.globalWhen, params))

\* The errors of the promises that reject; Promise.all rejects with the one
\* that rejects first.
SingleErrors(oc, opts, params) ==
    LET ErrorOf(o) == IF o.throws THEN {o.error} ELSE {}
    IN ErrorOf(WhenOutcome(oc.when, params)) \cup ErrorOf(WhenOutcome(opts.globalWhen, params))
       \cup ErrorOf(GeneratorOutcome(oc.filter, params)) \cup ErrorOf(GeneratorOutcome(opts.globalFilter, params))
       \cup ErrorOf(GeneratorOutcome(oc.project, params)) \cup ErrorOf(GeneratorOutcome(opts.globalProject, params))

\* rbac.ts:359-363: the decision of a single role from the six results.
SingleDecisionNoGlobalWhen(oc, opts, params) ==
    Decision(WhenOutcome(oc.when, params).value,
             MergeOverlay(GeneratorOutcome(opts.globalFilter, params).value,
                          GeneratorOutcome(oc.filter, params).value),
             MergeOverlay(GeneratorOutcome(opts.globalProject, params).value,
                          GeneratorOutcome(oc.project, params).value))
SingleDecisionEither(oc, opts, params) ==
    Decision(WhenOutcome(oc.when, params).value \/ WhenOutcome(opts.globalWhen, params).value,
             MergeOverlay(GeneratorOutcome(opts.globalFilter, params).value,
                          GeneratorOutcome(oc.filter, params).value),
             MergeOverlay(GeneratorOutcome(opts.globalProject, params).value,
                          GeneratorOutcome(oc.project, params).value))
SingleDecision(oc, opts, params) ==
    Decision(WhenOutcome(oc.when, params).value /\ WhenOutcome(opts.globalWhen, params).value,
             MergeOverlay(GeneratorOutcome(opts.globalFilter, params).value,
                          GeneratorOutcome(oc.filter, params).value),
             MergeOverlay(GeneratorOutcome(opts.globalProject, params).value,
                          GeneratorOutcome(oc.project, params).value))

\* allowed.filter(({ filter }) => !!filter).map(({ filter }) => filter)
Filters(allowed) ==
    LET kept == SelectSeq(allowed, LAMBDA p : p.filter # None)
    IN [i \in 1..Len(kept) |-> kept[i].filter[1]]
Projects(allowed) ==
    LET kept == SelectSeq(allowed, LAMBDA p : p.project # None)
    IN [i \in 1..Len(kept) |-> kept[i].project[1]]

\* permissions.filter(({ permission }) => !!permission)
AllowedAll(permissions) == permissions
Allowed(permissions) == SelectSeq(permissions, LAMBDA p : p.permission)

\* allowed.find(({ filter, project }) => !filter && !project), as a sequence
\* of at most one element
UnrestrictedHeadOnly(allowed) ==
    IF allowed # <<>> /\ allowed[1].filter = None /\ allowed[1].project = None
    THEN <<allowed[1]>> ELSE <<>>
Unrestricted(allowed) ==
    LET hits == SelectSeq(allowed, LAMBDA p : p.filter = None /\ p.project = None)
    IN IF hits = <<>> THEN <<>> ELSE <<hits[1]>>

\* rbac.ts:315-316: the error thrown for a reducer that is needed and not
\* configured, "" when none is thrown.
MissingReducerFiltersOnly(filters, projects, opts) ==
    IF Len(filters) > 0 /\ opts.mergeFilters = Undefined THEN ErrMergeFilters
    ELSE ""
MissingReducer(filters, projects, opts) ==
    IF Len(filters) > 0 /\ opts.mergeFilters = Undefined THEN ErrMergeFilters
    ELSE IF Len(projects) > 0 /\ opts.mergeProjections = Undefined THEN ErrMergeProjections
    ELSE ""

\* rbac.ts:318-319: payloads.length > 1 ? reducer?.(payloads, operation) : payloads[0],
\* with the calls of the reducer it makes.
ReduceAlways(payloads, reducer, operation) ==
    IF Len(payloads) > 0
    THEN [value |-> Some(Merged(payloads, operation)),
          calls |-> <<[fn |-> reducer, args |-> payloads, op |-> operation]>>]
    ELSE [value |-> None, calls |-> <<>>]
Reduce(payloads, reducer, operation) ==
    IF Len(payloads) > 1
    THEN [value |-> Some(Merged(payloads, operation)),
          calls |-> <<[fn |-> reducer, args |-> payloads, op |-> operation]>>]
    ELSE IF Len(payloads) = 1 THEN [value |-> Some(payloads[1]), calls |-> <<>>]
    ELSE [value |-> None, calls |-> <<>>]

\* rbac.ts:301-321: the outcome of a query for several roles from the
\* decisions of the roles, and the reducer calls made on the way.
MultiOutcome(permissions, operation, opts) ==
    LET allowed == Allowed(permissions)
        filters == Filters(allowed)
        projects == Projects(allowed)
        filter == Reduce(filters, "mergeFilters", operation)
        project == Reduce(projects, "mergeProjections", operation)
    IN IF Len(allowed) < 1 THEN [result |-> Deny, merges |-> <<>>]
       ELSE IF Unrestricted(allowed) # <<>> THEN [result |-> Unrestricted(allowed)[1], merges |-> <<>>]
       ELSE IF MissingReducer(filters, projects, opts) # ""
            THEN [result |-> Rejection(MissingReducer(filters, projects, opts)), merges |-> <<>>]
       ELSE [result |-> Decision(TRUE, filter.value, project.value),
             merges |-> filter.calls \o project.calls]

----------------------------------------------------------------------------
(* can(): invocations *)

\* One invocation of can().  pc is where it stands: "awaitFns" at the await
\* of rbac.ts:351, "awaitRoles" at the await of rbac.ts:299, "awaitInherited"
\* when it returned the promise of rbac.ts:337, "done" when its promise has
\* settled; "awaitInit" at the await of rbac.ts:55 (default export).  children
\* are the invocations it made, in the order of the call; waited records that
\* the invocation stood at "awaitInit".
Frame(role, operation, params, parent, depth) ==
    [role |-> role, operation |-> operation, params |-> params,
     parent |-> parent, depth |-> depth, pc |-> "done",
     operationCan |-> NotFound, invoked |-> <<>>, merges |-> <<>>,
     children |-> <<>>, result |-> Pending, waited |-> FALSE]

SettledStaysPending(frame, result) == [frame EXCEPT !.result = result]
Settled(frame, result) == [frame EXCEPT !.pc = "done", !.result = result]

\* The synchronous part of can(role, operation, params), up to its first
\* await or its return: fs is the sequence of invocations so far, to which the
\* new one and the ones it makes are appended.  An invocation the stack has no
\* room for throws, which rejects its promise.
RECURSIVE InvokeCan(_, _, _, _, _, _)
RECURSIVE SpawnRoles(_, _, _, _, _, _, _)

SpawnRoles(fs, id, list, i, operation, params, depth) ==
    IF i > Len(list) THEN fs
    ELSE LET child == Len(fs) + 1
             fs1 == InvokeCan(fs, Role(list[i]), operation, params, id, depth)
         IN SpawnRoles([fs1 EXCEPT ![id].children = Append(@, child)],
                       id, list, i + 1, operation, params, depth)

InvokeCan(fs, role, operation, params, parent, depth) ==
    LET id == Len(fs) + 1
        frame == Frame(role, operation, params, parent, depth)
    IN IF depth > MaxDepth THEN Append(fs, Settled(frame, Rejection(ErrStack)))
       ELSE IF role.kind = "array"
       THEN SpawnRoles(Append(fs, [frame EXCEPT !.pc = "awaitRoles"]),
                       id, role.list, 1, operation, params, depth + 1)
       ELSE IF role.kind # "string" THEN Append(fs, Settled(frame, Deny))
       ELSE IF operation = NotAString THEN Append(fs, Settled(frame, Deny))
       ELSE IF RolesGet(roles, role.name) = 0 THEN Append(fs, Settled(frame, Deny))
       ELSE LET roleMapItem == roles[RolesGet(roles, role.name)].item
                operationCan == OperationCan(roleMapItem, operation)
            IN IF NoMatch(roleMapItem, operation)
               THEN IF Len(roleMapItem.inherits) < 1 THEN Append(fs, Settled(frame, Deny))
                    ELSE InvokeCan(Append(fs, [frame EXCEPT !.pc = "awaitInherited",
                                                            !.children = <<id + 1>>]),
                                   RoleArray(roleMapItem.inherits), operation, params, id, depth + 1)
               ELSE IF operationCan.src = "none"
               THEN Append(fs, Settled(frame, Rejection(ErrInternal)))
               ELSE Append(fs, [frame EXCEPT !.pc = "awaitFns",
                                             !.operationCan = operationCan,
                                             !.invoked = InvokedFunctions(operationCan, options)])

\* The decisions of the invocations a frame made, in the order of the call.
ChildResultsShared(fs, f) ==
    LET S == {g \in 1..Len(fs) : /\ fs[g].parent # 0
                                  /\ fs[fs[g].parent].role.kind = "array"
                                  /\ fs[g].pc = "done"
                                  /\ fs[g].result.kind = "decision"}
    IN [i \in 1..Cardinality(S) |->
           fs[CHOOSE g \in S : Cardinality({h \in S : h < g}) = i - 1].result]
ChildResults(fs, f) == [i \in 1..Len(fs[f].children) |-> fs[fs[f].children[i]].result]

----------------------------------------------------------------------------
(* Actions *)

\* The count of the calls of the roles function and of buildRoleMap: none
\* when the constructor is entered, one more with each call.
NoInits == [factory |-> 0, compile |-> 0]
FactoryRun(n) == [n EXCEPT !.factory = @ + 1]
BuildRun(n) == [n EXCEPT !.compile = @ + 1]

\* await this.init (rbac.ts:55): can waits for the promise the constructor
\* stored; it starts nothing.
AwaitInitRestarts(n) == BuildRun(n)
AwaitInit(n) == n

\* new RBAC(roles, options): rbac.ts:264-268.
Constructor ==
    /\ engine = "new"
    /\ LET built == buildRoleMap(config, 1, <<>>)
       IN /\ roles' = built.roles
          /\ engine' = IF built.error = "" THEN "ready" ELSE "threw"
    /\ inits' = BuildRun(inits)
    /\ UNCHANGED <<config, options, frames, version, source>>

\* rbac.can(role, operation, params) by the application, once it has taken
\* the outcome of the call before.
Call(role, operation, params) ==
    /\ engine = "ready"
    /\ frames = <<>>
    /\ frames' = InvokeCan(<<>>, role, operation, params, 0, 1)
    /\ UNCHANGED <<config, options, engine, roles, version, source, inits>>

\* rbac.can(role, operation, params) by the application while earlier calls
\* are suspended at their awaits: its synchronous part runs at once.
CallConcurrent(role, operation, params) ==
    /\ engine = "ready"
    /\ Cardinality({f \in 1..Len(frames) : frames[f].parent = 0}) < MaxCalls
    /\ frames' = InvokeCan(frames, role, operation, params, 0, 1)
    /\ UNCHANGED <<config, options, engine, roles, version, source, inits>>

\* rbac.ts:351-363: the six promises have resolved.
ResolveFns(f) ==
    /\ frames[f].pc = "awaitFns"
    /\ SingleErrors(frames[f].operationCan, options, frames[f].params) = {}
    /\ frames' = [frames EXCEPT ![f] =
           Settled(@, SingleDecision(frames[f].operationCan, options, frames[f].params))]
    /\ UNCHANGED <<config, options, engine, roles, version, source, inits>>

\* rbac.ts:351: one of the six promises has rejected.
RejectFns(f) ==
    /\ frames[f].pc = "awaitFns"
    /\ \E e \in SingleErrors(frames[f].operationCan, options, frames[f].params) :
           frames' = [frames EXCEPT ![f] = Settled(@, Rejection(e))]
    /\ UNCHANGED <<config, options, engine, roles, version, source, inits>>

\* rbac.ts:299-321: the promises of all the roles have resolved.
ResolveRoles(f) ==
    /\ frames[f].pc = "awaitRoles"
    /\ \A c \in 1..Len(frames[f].children) : frames[frames[f].children[c]].result.kind = "decision"
    /\ LET out == MultiOutcome(ChildResults(frames, f), frames[f].operation, options)
       IN frames' = [frames EXCEPT ![f] = [Settled(@, out.result) EXCEPT !.merges = out.merges]]
    /\ UNCHANGED <<config, options, engine, roles, version, source, inits>>

\* rbac.ts:299: the promise of one of the roles has rejected.
RejectRoles(f) ==
    /\ frames[f].pc = "awaitRoles"
    /\ \E c \in 1..Len(frames[f].children) :
           /\ frames[frames[f].children[c]].result.kind = "error"
           /\ frames' = [frames EXCEPT ![f] = Settled(@, frames[frames[f].children[c]].result)]
    /\ UNCHANGED <<config, options, engine, roles, version, source, inits>>

\* rbac.ts:337: the promise returned for the inherited roles has settled.
ReturnInherited(f) ==
    /\ frames[f].pc = "awaitInherited"
    /\ frames[frames[f].children[1]].pc = "done"
    /\ frames' = [frames EXCEPT ![f] = Settled(@, frames[frames[f].children[1]].result)]
    /\ UNCHANGED <<config, options, engine, roles, version, source, inits>>

\* The application takes the outcome of its call; nothing refers to the
\* settled invocations any more.
Return ==
    /\ frames # <<>>
    /\ \A f \in 1..Len(frames) : frames[f].pc = "done"
    /\ frames' = <<>>
    /\ UNCHANGED <<config, options, engine, roles, version, source, inits>>

----------------------------------------------------------------------------
(* The default export (rbac.ts:16-186): compilation and the merge of roles *)

\* The body of roleObject.can.forEach of the default export (rbac.ts:142-169):
\* the TypeErrors for a when or filter that is no function are created and
\* not thrown (rbac.ts:157-158), and an entry keeps no project.
DefaultAddPermission(item, permission) ==
    IF permission.kind = "string" THEN
        IF hasWildcard(permission.name)
        THEN Compiled([item EXCEPT !.canWildcards =
                 Append(@, [wildcard |-> wildcardRegex(permission.name),
                            name |-> permission.name, when |-> Undefined,
                            filter |-> Undefined, project |-> Undefined])])
        ELSE Compiled([item EXCEPT !.can =
                 SetCan(@, EntryOf(permission.name, Undefined, Undefined, Undefined))])
    ELSE IF permission.kind = "object" THEN
        IF permission.name = <<>> THEN CompileError("name is missing on permission object", item)
        ELSE IF hasWildcard(permission.name)
        THEN Compiled([item EXCEPT !.canWildcards =
                 Append(@, [wildcard |-> wildcardRegex(permission.name),
                            name |-> permission.name, when |-> permission.when,
                            filter |-> permission.filter, project |-> Undefined])])
        ELSE Compiled([item EXCEPT !.can =
                 SetCan(@, EntryOf(permission.name, permission.when,
                                   permission.filter, Undefined))])
    ELSE CompileError("Unexpected permission type", item)

RECURSIVE DefaultAddPermissions(_, _, _)
DefaultAddPermissions(item, can, i) ==
    IF i > Len(can) THEN Compiled(item)
    ELSE LET r == DefaultAddPermission(item, can[i])
         IN IF r.error # "" THEN r ELSE DefaultAddPermissions(r.item, can, i + 1)

\* The body of Object.keys(roles).forEach of the default export (rbac.ts:116-172)
DefaultBuildRoleMapItem(cfg, roleObject) ==
    LET item == [can |-> <<>>, canWildcards |-> <<>>, inherits |-> roleObject.inherits]
    IN IF \E i \in 1..Len(roleObject.inherits) : ~HasRoleProperty(cfg, roleObject.inherits[i])
       THEN CompileError("Undefined inheritance role", item)
       ELSE DefaultAddPermissions(item, roleObject.can, 1)

\* buildRoleMap of the default export (rbac.ts:110-175) from key i on; it
\* sets this.inited when it returns, which the engine state "ready" records.
RECURSIVE DefaultBuildRoleMap(_, _, _)
DefaultBuildRoleMap(cfg, i, map) ==
    IF i > Len(cfg) THEN [error |-> "", roles |-> map]
    ELSE LET r == DefaultBuildRoleMapItem(cfg, cfg[i])
         IN IF r.error # "" THEN [error |-> r.error, roles |-> map]
            ELSE DefaultBuildRoleMap(cfg, i + 1, Append(map, [role |-> cfg[i].role, item |-> r.item]))

ErrRoleConflict == "Role definition conflict: Multiple permissions with filters apply."

\* rbac.ts:103: the decision of a single role of the default export
DefaultSingleDecision(oc, opts, params) ==
    Decision(WhenOutcome(oc.when, params).value /\ WhenOutcome(opts.globalWhen, params).value,
             MergeOverlay(GeneratorOutcome(opts.globalFilter, params).value,
                          GeneratorOutcome(oc.filter, params).value),
             None)

\* rbac.ts:62-75: the outcome of a query for several roles of the default export
DefaultMultiOutcome(permissions) ==
    LET filterless == SelectSeq(permissions, LAMBDA p : p.permission /\ p.filter = None)
        filterPermissions == SelectSeq(permissions, LAMBDA p : p.permission /\ p.filter # None)
    IN IF filterless # <<>> THEN filterless[1]
       ELSE IF Len(filterPermissions) < 1 THEN Deny
       ELSE IF Len(filterPermissions) = 1 THEN filterPermissions[1]
       ELSE Rejection(ErrRoleConflict)

----------------------------------------------------------------------------
(* Construction: the constructor's argument, RBAC.create, and the init of   *)
(* the default export                                                       *)

\* A value of type RolesOptions: the roles object, a promise of it, or a
\* function returning a promise of it.
RolesOptions(form, cfg) == [form |-> form, roles |-> cfg]

\* roles(): the factory returns a promise of the roles object
CallFactory(v) == RolesOptions("promise", v.roles)

\* await v: the value a promise resolves to, any other value itself
AwaitNothing(v) == v
Await(v) == IF v.form = "promise" THEN RolesOptions("mapping", v.roles) ELSE v

\* rbac.ts:279-284: the argument RBAC.create hands to the constructor
CreateArgument(v) == IF v.form = "factory" THEN Await(CallFactory(v)) ELSE Await(v)

\* buildRoleMap(v) for any value (rbac.ts:370-376): a function is no object
\* and is refused, a promise is an object with no keys of its own.
BuildFrom(v) ==
    IF v.form = "factory" THEN [error |-> "Expected input to be object", roles |-> <<>>]
    ELSE IF v.form = "promise" THEN [error |-> "", roles |-> <<>>]
    ELSE buildRoleMap(v.roles, 1, <<>>)

\* The same of the default export (rbac.ts:110-116)
DefaultBuildFrom(v) ==
    IF v.form = "factory" THEN [error |-> "Expected input to be object", roles |-> <<>>]
    ELSE IF v.form = "promise" THEN [error |-> "", roles |-> <<>>]
    ELSE DefaultBuildRoleMap(v.roles, 1, <<>>)

\* What this.init settles to and this.inited becomes when buildRoleMap has
\* run in asyncInit: "ready" is fulfilled with this.inited set (rbac.ts:174),
\* "failed" is rejected with this.inited left false.
InitStateAlwaysReady(built) == "ready"
InitState(built) == IF built.error = "" THEN "ready" ELSE "failed"

\* this.inited (rbac.ts:53), as a function of the engine state
InitedAlways(state) == TRUE
Inited(state) == state = "ready"

\* RBAC.create(roles, options) up to its await (rbac.ts:278-284)
CreateCall ==
    /\ version = "named"
    /\ engine = "new"
    /\ engine' = "creating"
    /\ inits' = IF source = "factory" THEN FactoryRun(inits) ELSE inits
    /\ UNCHANGED <<config, options, roles, frames, version, source>>

\* RBAC.create resumes: new this(<the awaited roles>, options); an error of
\* the constructor rejects the promise of create and no instance is returned.
CreateResume ==
    /\ engine = "creating"
    /\ LET built == BuildFrom(CreateArgument(RolesOptions(source, config)))
       IN /\ roles' = built.roles
          /\ engine' = IF built.error = "" THEN "ready" ELSE "threw"
    /\ inits' = BuildRun(inits)
    /\ UNCHANGED <<config, options, frames, version, source>>

\* new RBAC(roles, options) of the default export (rbac.ts:27-40): a roles
\* object is compiled at once, a function or a promise starts asyncInit,
\* which runs to its await.
DefaultConstructor ==
    /\ version = "default"
    /\ engine = "new"
    /\ IF source = "mapping"
       THEN LET built == DefaultBuildFrom(RolesOptions(source, config))
            IN /\ roles' = built.roles
               /\ engine' = IF built.error = "" THEN "ready" ELSE "threw"
               /\ inits' = BuildRun(inits)
       ELSE /\ roles' = <<>>
            /\ engine' = "pending"
            /\ inits' = IF source = "factory" THEN FactoryRun(inits) ELSE inits
    /\ UNCHANGED <<config, options, frames, version, source>>

\* asyncInit resumes (rbac.ts:177-185): buildRoleMap(<the awaited roles>); an
\* error rejects this.init and leaves this.inited false.
DefaultAsyncInit ==
    /\ version = "default"
    /\ engine = "pending"
    /\ LET built == DefaultBuildFrom(CreateArgument(RolesOptions(source, config)))
       IN /\ roles' = built.roles
          /\ engine' = InitState(built)
    /\ inits' = BuildRun(inits)
    /\ UNCHANGED <<config, options, frames, version, source>>

\* rbac.can(role, operation, params) on an instance of the default export
\* (rbac.ts:51-56): it waits for this.init unless this.inited is set.
DefaultCall(role, operation, params) ==
    /\ version = "default"
    /\ engine \in {"ready", "pending", "failed"}
    /\ frames = <<>>
    /\ frames' = IF Inited(engine)
                 THEN InvokeCan(<<>>, role, operation, params, 0, 1)
                 ELSE <<[Frame(role, operation, params, 0, 1) EXCEPT !.pc = "awaitInit",
                                                                     !.waited = TRUE]>>
    /\ UNCHANGED <<config, options, engine, roles, version, source, inits>>

\* rbac.ts:55: this.init has settled; the call in flight goes on, or rejects
\* with the error buildRoleMap threw.
DefaultInitSettled ==
    /\ frames # <<>>
    /\ frames[1].pc = "awaitInit"
    /\ engine \in {"ready", "failed"}
    /\ frames' = IF Inited(engine)
                 THEN [InvokeCan(<<>>, frames[1].role, frames[1].operation, frames[1].params, 0, 1)
                          EXCEPT ![1].waited = TRUE]
                 ELSE <<Settled(frames[1],
                          Rejection(DefaultBuildFrom(CreateArgument(RolesOptions(source, config))).error))>>
    /\ inits' = AwaitInit(inits)
    /\ UNCHANGED <<config, options, engine, roles, version, source>>

\* rbac.can(role, operation, params) on an instance of the default export
\* while earlier calls are waiting or suspended (rbac.ts:51-56).
DefaultCallConcurrent(role, operation, params) ==
    /\ version = "default"
    /\ engine \in {"ready", "pending", "failed"}
    /\ Cardinality({f \in 1..Len(frames) : frames[f].parent = 0}) < MaxCalls
    /\ frames' = IF Inited(engine)
                 THEN InvokeCan(frames, role, operation, params, 0, 1)
                 ELSE Append(frames, [Frame(role, operation, params, 0, 1)
                                         EXCEPT !.pc = "awaitInit", !.waited = TRUE])
    /\ UNCHANGED <<config, options, engine, roles, version, source, inits>>

\* rbac.ts:55: this.init has settled and the call that has waited longest
\* goes on.  What it does from rbac.ts:58 on is the invocation appended to
\* frames, whose outcome is the outcome of f; a rejected this.init rejects f
\* with the error buildRoleMap threw.
DefaultResume(f) ==
    /\ frames[f].pc = "awaitInit"
    /\ \A g \in 1..(f - 1) : frames[g].pc # "awaitInit"
    /\ engine \in {"ready", "failed"}
    /\ frames' = IF Inited(engine)
                 THEN [InvokeCan(frames, frames[f].role, frames[f].operation, frames[f].params, f, 1)
                          EXCEPT ![f].pc = "awaitInherited", ![f].children = <<Len(frames) + 1>>]
                 ELSE [frames EXCEPT ![f] = Settled(@,
                          Rejection(DefaultBuildFrom(CreateArgument(RolesOptions(source, config))).error))]
    /\ inits' = AwaitInit(inits)
    /\ UNCHANGED <<config, options, engine, roles, version, source>>

\* rbac.ts:102-103: the four promises have resolved.
DefaultResolveFns(f) ==
    /\ version = "default"
    /\ frames[f].pc = "awaitFns"
    /\ SingleErrors(frames[f].operationCan, options, frames[f].params) = {}
    /\ frames' = [frames EXCEPT ![f] =
           Settled(@, DefaultSingleDecision(frames[f].operationCan, options, frames[f].params))]
    /\ UNCHANGED <<config, options, engine, roles, version, source, inits>>

\* rbac.ts:60-75: the promises of all the roles have resolved.
DefaultResolveRoles(f) ==
    /\ version = "default"
    /\ frames[f].pc = "awaitRoles"
    /\ \A c \in 1..Len(frames[f].children) : frames[frames[f].children[c]].result.kind = "decision"
    /\ frames' = [frames EXCEPT ![f] = Settled(@, DefaultMultiOutcome(ChildResults(frames, f)))]
    /\ UNCHANGED <<config, options, engine, roles, version, source, inits>>

----------------------------------------------------------------------------
(* can() as a function of the role map: the outcomes a call can have when   *)
(* nothing else runs on the engine                                          *)

\* The outcomes of can(role, operation, params) of class v on the role map
\* and options given, nested depth deep: one decision, or the errors the
\* call can reject with.
RECURSIVE CanOutcomes(_, _, _, _, _, _, _)
CanOutcomes(v, map, opts, role, operation, params, depth) ==
    IF depth > MaxDepth THEN {Rejection(ErrStack)}
    ELSE IF role.kind = "array"
    THEN LET each == [i \in 1..Len(role.list) |->
                         CanOutcomes(v, map, opts, Role(role.list[i]), operation, params, depth + 1)]
             errors == UNION {{r \in each[i] : r.kind = "error"} : i \in 1..Len(role.list)}
             permissions == [i \in 1..Len(role.list) |-> CHOOSE r \in each[i] : TRUE]
         IN IF errors # {} THEN errors
            ELSE IF v = "default" THEN {DefaultMultiOutcome(permissions)}
            ELSE {MultiOutcome(permissions, operation, opts).result}
    ELSE IF role.kind # "string" THEN {Deny}
    ELSE IF operation = NotAString THEN {Deny}
    ELSE IF RolesGet(map, role.name) = 0 THEN {Deny}
    ELSE LET roleMapItem == map[RolesGet(map, role.name)].item
             operationCan == OperationCan(roleMapItem, operation)
             errors == SingleErrors(operationCan, opts, params)
         IN IF NoMatch(roleMapItem, operation)
            THEN IF Len(roleMapItem.inherits) < 1 THEN {Deny}
                 ELSE CanOutcomes(v, map, opts, RoleArray(roleMapItem.inherits),
                                  operation, params, depth + 1)
            ELSE IF operationCan.src = "none" THEN {Rejection(ErrInternal)}
            ELSE IF errors # {} THEN {Rejection(e) : e \in errors}
            ELSE IF v = "default" THEN {DefaultSingleDecision(operationCan, opts, params)}
            ELSE {SingleDecision(operationCan, opts, params)}

----------------------------------------------------------------------------
(* The configurations, options and calls explored *)

Options(globalWhen, globalFilter, globalProject, mergeFilters, mergeProjections) ==
    [globalWhen |-> globalWhen, globalFilter |-> globalFilter, globalProject |-> globalProject,
     mergeFilters |-> mergeFilters, mergeProjections |-> mergeProjections]

NoOptions == Options(Undefined, Undefined, Undefined, Undefined, Undefined)

\* All sequences over S of length at most n.
RECURSIVE SeqsUpTo(_, _)
SeqsUpTo(S, n) ==
    IF n = 0 THEN {<<>>}
    ELSE LET shorter == SeqsUpTo(S, n - 1)
         IN shorter \cup {Append(q, x) : q \in shorter, x \in S}

\* One role whose can list mixes exact names and wildcard patterns, in any
\* order and with repetitions.
WildcardPermissions ==
    {StringPermission(OpXY),
     StringPermission(PatX),
     PermissionObject(OpXY, "wFlag", "gA", Undefined),
     PermissionObject(PatX, "wNotFlag", "gB", "gA"),
     PermissionObject(PatAll, Undefined, Undefined, "gB")}

WildcardScenarios ==
    {[config |-> <<RoleObject("a", can, <<>>)>>, options |-> o] :
        can \in SeqsUpTo(WildcardPermissions, MaxCan),
        o \in {NoOptions, Options("wFlag", Undefined, Undefined, Undefined, Undefined)}}

\* Three roles a, b and c, of which b and c may inherit, with conditions,
\* filters and projections on the one operation they share.
InheritanceOptions ==
    {NoOptions,
     Options("wFlag", Undefined, Undefined, Undefined, Undefined),
     Options(Undefined, "gA", "gB", Undefined, Undefined),
     Options(Undefined, Undefined, Undefined, "fn", Undefined),
     Options(Undefined, Undefined, Undefined, Undefined, "fn"),
     Options(Undefined, Undefined, Undefined, "fn", "fn"),
     Options("wNotFlag", "gFlag", "gA", "fn", "fn"),
     Options("wThrow", Undefined, "gThrow", "fn", Undefined)}

InheritanceScenarios ==
    {[config |-> <<RoleObject("a", canA, <<>>), RoleObject("b", canB, inhB), RoleObject("c", <<>>, inhC)>>,
      options |-> o] :
        canA \in {<<StringPermission(OpXY)>>,
                  <<PermissionObject(OpXY, Undefined, "gA", Undefined)>>,
                  <<PermissionObject(OpXY, "wFlag", "gA", "gA")>>},
        canB \in {<<>>,
                  <<PermissionObject(OpXY, Undefined, "gB", Undefined)>>,
                  <<PermissionObject(OpXY, Undefined, "gFlag", "gB")>>,
                  <<PermissionObject(OpXY, "wFlag", "gThrow", Undefined)>>,
                  <<PermissionObject(OpXY, "wFlag", Undefined, Undefined)>>},
        inhB \in {<<>>, <<"a">>},
        inhC \in {<<>>, <<"b">>, <<"a", "b">>, <<"b", "a">>, <<"c">>},
        o \in InheritanceOptions}

\* Configurations the constructor refuses, and one whose inherits names a
\* member of Object.prototype.
OddScenarios ==
    {[config |-> c, options |-> NoOptions] :
        c \in {<<RoleObject("a", <<StringPermission(OpXY)>>, <<>>), RoleObject("b", <<>>, <<"d">>)>>,
               <<RoleObject("a", <<PermissionObject(OpXY, "notFn", Undefined, Undefined)>>, <<>>)>>,
               <<RoleObject("a", <<StringPermission(OpXY)>>, <<>>), RoleObject("b", <<>>, <<"toString">>)>>}}

Scenarios == WildcardScenarios \cup InheritanceScenarios \cup OddScenarios

RoleArguments ==
    {Role("a"), Role("b"), Role("c"), Role("u"),
     RoleArray(<<>>), RoleArray(<<"a">>), RoleArray(<<"a", "b">>), RoleArray(<<"b", "a">>),
     RoleArray(<<"a", "b", "c">>), RoleArray(<<"u", "b">>)}

Operations == {OpXY, OpXZ, OpW, OpToString}

CallInputs ==
    {<<r, op, p>> : r \in RoleArguments, op \in Operations, p \in ParamsSet}
    \cup {<<NotARole, OpXY, [flag |-> TRUE]>>, <<Role("a"), NotAString, [flag |-> TRUE]>>}

----------------------------------------------------------------------------
(* Specification *)

Init ==
    /\ \E s \in Scenarios : config = s.config /\ options = s.options
    /\ engine = "new"
    /\ roles = <<>>
    /\ frames = <<>>
    /\ version = "named"
    /\ source = "mapping"
    /\ inits = NoInits

Next ==
    \/ Constructor
    \/ \E in \in CallInputs : Call(in[1], in[2], in[3])
    \/ \E f \in 1..Len(frames) : ResolveFns(f)
    \/ \E f \in 1..Len(frames) : RejectFns(f)
    \/ \E f \in 1..Len(frames) : ResolveRoles(f)
    \/ \E f \in 1..Len(frames) : RejectRoles(f)
    \/ \E f \in 1..Len(frames) : ReturnInherited(f)
    \/ Return

Spec == Init /\ [][Next]_vars

\* One role with one wildcard pattern, asked for operations with and without
\* the pattern's prefix: new RBAC({ a: { can: [pattern] } }).can('a', operation).
WildcardPatterns == {PatX, PatAll, PatXDot, PatXStarY, PatStarY, PatXStarStar}

WildcardCandidates == {OpX, OpXY, OpXZ, OpXYZ, OpZXY, OpW, OpXDotY, OpXXY, OpXLineY, <<"y">>, <<"x">>}

InitWildcard ==
    /\ \E pattern \in WildcardPatterns :
          config = <<RoleObject("a", <<StringPermission(pattern)>>, <<>>)>>
    /\ options = NoOptions
    /\ engine = "new"
    /\ roles = <<>>
    /\ frames = <<>>
    /\ version = "named"
    /\ source = "mapping"
    /\ inits = NoInits

NextWildcard ==
    \/ Constructor
    \/ \E operation \in WildcardCandidates : Call(Role("a"), operation, [flag |-> TRUE])
    \/ \E f \in 1..Len(frames) : ResolveFns(f)
    \/ Return

SpecWildcard == InitWildcard /\ [][NextWildcard]_vars

\* Configurations for the ways of construction: one that compiles, ones
\* that fail at the second role after the first was compiled, ones with a
\* when or filter that is no function, and one with two filtered roles.
ConstructionConfigs ==
    {<<RoleObject("a", <<StringPermission(OpXY)>>, <<>>), RoleObject("b", <<>>, <<"a">>)>>,
     <<RoleObject("a", <<StringPermission(OpXY)>>, <<>>), RoleObject("b", <<>>, <<"d">>)>>,
     <<RoleObject("a", <<StringPermission(OpXY)>>, <<>>),
       RoleObject("b", <<PermissionObject(<<>>, Undefined, Undefined, Undefined)>>, <<>>)>>,
     <<RoleObject("a", <<PermissionObject(OpXY, "notFn", Undefined, Undefined)>>, <<>>)>>,
     <<RoleObject("a", <<StringPermission(OpXY)>>, <<>>),
       RoleObject("b", <<PermissionObject(OpXY, Undefined, "notFn", Undefined)>>, <<>>)>>,
     <<RoleObject("a", <<PermissionObject(OpXY, FalseValue, Undefined, Undefined)>>, <<>>)>>,
     <<RoleObject("a", <<PermissionObject(OpXY, "wFlag", "gA", Undefined)>>, <<>>),
       RoleObject("b", <<PermissionObject(PatX, Undefined, "gB", Undefined)>>, <<>>)>>}

\* Options both classes read: globalWhen and globalFilter.
ConstructionOptions ==
    {NoOptions,
     Options("wFlag", "gA", Undefined, Undefined, Undefined),
     Options("wThrow", Undefined, Undefined, Undefined, Undefined)}

ConstructionCalls ==
    {<<r, op, p>> : r \in {Role("a"), Role("b"), RoleArray(<<"a", "b">>)},
                    op \in {OpXY, OpW}, p \in ParamsSet}

InitConstruction ==
    /\ config \in ConstructionConfigs
    /\ options \in ConstructionOptions
    /\ version \in {"named", "default"}
    /\ source \in {"mapping", "promise", "factory"}
    /\ inits = NoInits
    /\ engine = "new"
    /\ roles = <<>>
    /\ frames = <<>>

\* The constructor of the named class takes a roles object only; a promise
\* or a factory goes through RBAC.create.
NextConstruction ==
    \/ version = "named" /\ source = "mapping" /\ Constructor
    \/ CreateCall
    \/ CreateResume
    \/ DefaultConstructor
    \/ DefaultAsyncInit
    \/ \E in \in ConstructionCalls : version = "named" /\ Call(in[1], in[2], in[3])
    \/ \E in \in ConstructionCalls : DefaultCall(in[1], in[2], in[3])
    \/ DefaultInitSettled
    \/ \E f \in 1..Len(frames) : version = "named" /\ ResolveFns(f)
    \/ \E f \in 1..Len(frames) : DefaultResolveFns(f)
    \/ \E f \in 1..Len(frames) : RejectFns(f)
    \/ \E f \in 1..Len(frames) : version = "named" /\ ResolveRoles(f)
    \/ \E f \in 1..Len(frames) : DefaultResolveRoles(f)
    \/ \E f \in 1..Len(frames) : RejectRoles(f)
    \/ \E f \in 1..Len(frames) : ReturnInherited(f)
    \/ Return

SpecConstruction == InitConstruction /\ [][NextConstruction]_vars

\* Configurations for calls in flight together: inheritance, two roles with
\* filters, and a role whose filter throws.
ConcurrentConfigs ==
    {<<RoleObject("a", <<StringPermission(OpXY)>>, <<>>), RoleObject("b", <<>>, <<"a">>)>>,
     <<RoleObject("a", <<PermissionObject(OpXY, "wFlag", "gA", Undefined)>>, <<>>),
       RoleObject("b", <<PermissionObject(PatX, Undefined, "gB", Undefined)>>, <<>>)>>,
     <<RoleObject("a", <<StringPermission(OpXY)>>, <<>>),
       RoleObject("b", <<PermissionObject(PatX, "wFlag", "gThrow", Undefined)>>, <<>>)>>}

ConcurrentOptions ==
    {NoOptions, Options(Undefined, Undefined, Undefined, "fn", Undefined)}

ConcurrentCalls ==
    {<<r, op, p>> : r \in {Role("b"), RoleArray(<<"a", "b">>)},
                    op \in {OpXY, OpXZ}, p \in ParamsSet}

InitConcurrent ==
    /\ config \in ConcurrentConfigs
    /\ options \in ConcurrentOptions
    /\ version = "named"
    /\ source = "mapping"
    /\ inits = NoInits
    /\ engine = "new"
    /\ roles = <<>>
    /\ frames = <<>>

NextConcurrent ==
    \/ Constructor
    \/ \E in \in ConcurrentCalls : CallConcurrent(in[1], in[2], in[3])
    \/ \E f \in 1..Len(frames) : ResolveFns(f)
    \/ \E f \in 1..Len(frames) : RejectFns(f)
    \/ \E f \in 1..Len(frames) : ResolveRoles(f)
    \/ \E f \in 1..Len(frames) : RejectRoles(f)
    \/ \E f \in 1..Len(frames) : ReturnInherited(f)
    \/ Return

SpecConcurrent == InitConcurrent /\ [][NextConcurrent]_vars

\* Configurations whose inherits lists form a cycle: a role that inherits
\* itself, two roles that inherit each other, and a role that inherits itself
\* and another role.
CycleConfigs ==
    {<<RoleObject("a", <<StringPermission(OpXY)>>, <<"a">>)>>,
     <<RoleObject("a", <<>>, <<"b">>),
       RoleObject("b", <<PermissionObject(OpXY, "wFlag", "gA", Undefined)>>, <<"a">>)>>,
     <<RoleObject("a", <<>>, <<"a", "b">>),
       RoleObject("b", <<PermissionObject(OpXY, "wThrow", Undefined, Undefined)>>, <<>>)>>}

CycleOptions ==
    {NoOptions, Options(Undefined, Undefined, Undefined, "fn", Undefined)}

CycleCalls ==
    {<<r, op, p>> : r \in {Role("a"), Role("b"), RoleArray(<<"a", "b">>)},
                    op \in {OpXY, OpXZ}, p \in ParamsSet}

InitCycles ==
    /\ config \in CycleConfigs
    /\ options \in CycleOptions
    /\ version = "named"
    /\ source = "mapping"
    /\ inits = NoInits
    /\ engine = "new"
    /\ roles = <<>>
    /\ frames = <<>>

NextCycles ==
    \/ Constructor
    \/ \E in \in CycleCalls : Call(in[1], in[2], in[3])
    \/ \E f \in 1..Len(frames) : ResolveFns(f)
    \/ \E f \in 1..Len(frames) : RejectFns(f)
    \/ \E f \in 1..Len(frames) : ResolveRoles(f)
    \/ \E f \in 1..Len(frames) : RejectRoles(f)
    \/ \E f \in 1..Len(frames) : ReturnInherited(f)
    \/ Return

\* A continuation of can whose promises have settled runs: the functions of
\* the caller complete, and the job queue runs every job that is ready.
Continue ==
    \E f \in 1..Len(frames) :
        ResolveFns(f) \/ RejectFns(f) \/ ResolveRoles(f) \/ RejectRoles(f) \/ ReturnInherited(f)

SpecCycles == InitCycles /\ [][NextCycles]_vars /\ WF_vars(Continue)

\* Deferred roles, for calls made before and after they are there: a
\* configuration that compiles, one that fails at its second role, and one
\* with a when that throws.
DeferredConfigs ==
    {<<RoleObject("a", <<StringPermission(OpXY)>>, <<>>), RoleObject("b", <<>>, <<"a">>)>>,
     <<RoleObject("a", <<StringPermission(OpXY)>>, <<>>), RoleObject("b", <<>>, <<"d">>)>>,
     <<RoleObject("a", <<PermissionObject(OpXY, "wThrow", Undefined, Undefined)>>, <<>>),
       RoleObject("b", <<StringPermission(OpXY)>>, <<>>)>>}

DeferredCalls ==
    {<<r, OpXY, [flag |-> TRUE]>> : r \in {Role("a"), Role("b"), RoleArray(<<"a", "b">>)}}

InitDeferred ==
    /\ config \in DeferredConfigs
    /\ options = NoOptions
    /\ version \in {"named", "default"}
    /\ source \in {"promise", "factory"}
    /\ inits = NoInits
    /\ engine = "new"
    /\ roles = <<>>
    /\ frames = <<>>

NextDeferred ==
    \/ CreateCall
    \/ CreateResume
    \/ DefaultConstructor
    \/ DefaultAsyncInit
    \/ \E in \in DeferredCalls : version = "named" /\ CallConcurrent(in[1], in[2], in[3])
    \/ \E in \in DeferredCalls : DefaultCallConcurrent(in[1], in[2], in[3])
    \/ \E f \in 1..Len(frames) : DefaultResume(f)
    \/ \E f \in 1..Len(frames) : version = "named" /\ ResolveFns(f)
    \/ \E f \in 1..Len(frames) : DefaultResolveFns(f)
    \/ \E f \in 1..Len(frames) : RejectFns(f)
    \/ \E f \in 1..Len(frames) : version = "named" /\ ResolveRoles(f)
    \/ \E f \in 1..Len(frames) : DefaultResolveRoles(f)
    \/ \E f \in 1..Len(frames) : RejectRoles(f)
    \/ \E f \in 1..Len(frames) : ReturnInherited(f)
    \/ Return

SpecDeferred == InitDeferred /\ [][NextDeferred]_vars

----------------------------------------------------------------------------
(* Properties *)

FrameIds == 1..Len(frames)

IsSingle(f) == frames[f].role.kind = "string"
IsMulti(f) == frames[f].role.kind = "array"
Decided(f) == frames[f].pc = "done" /\ frames[f].result.kind = "decision"
Rejected(f) == frames[f].pc = "done" /\ frames[f].result.kind = "error"

\* The compiled item of a role name, read from this.roles without the
\* lookups of can().
KnownRole(name) == \E i \in 1..Len(roles) : roles[i].role = name
ItemOf(name) == roles[CHOOSE i \in 1..Len(roles) : roles[i].role = name].item

\* The role declares the operation exactly / has a wildcard that matches it.
DeclaresExactly(name, operation) ==
    \E i \in 1..Len(ItemOf(name).can) : ItemOf(name).can[i].name = operation
ExactEntry(name, operation) ==
    ItemOf(name).can[CHOOSE i \in 1..Len(ItemOf(name).can) : ItemOf(name).can[i].name = operation]
HasMatchingWildcard(name, operation) ==
    \E i \in 1..Len(ItemOf(name).canWildcards) :
        RegExpTest(ItemOf(name).canWildcards[i].wildcard, operation)

\* What a configured function returns for params, TRUE / undefined if absent.
WhenValue(fn, params) == IF fn = Undefined THEN TRUE ELSE EvalWhen(fn, params).value
GlobalWhenReturnsFalse(params) ==
    /\ options.globalWhen # Undefined
    /\ ~EvalWhen(options.globalWhen, params).throws
    /\ ~EvalWhen(options.globalWhen, params).value

\* The decisions of the roles of a query for several roles, once all are there.
AllRolesDecided(f) ==
    /\ IsMulti(f)
    /\ frames[f].pc \in {"awaitRoles", "done"}
    /\ Len(frames[f].children) = Len(frames[f].role.list)
    /\ \A c \in 1..Len(frames[f].children) : Decided(frames[f].children[c])
RoleDecisions(f) == [c \in 1..Len(frames[f].children) |-> frames[frames[f].children[c]].result]

Grants(ds) == {i \in 1..Len(ds) : ds[i].permission}
UnconditionalGrants(ds) == {i \in Grants(ds) : ds[i].filter = None /\ ds[i].project = None}
FilterGrants(ds) == {i \in Grants(ds) : ds[i].filter # None}
ProjectGrants(ds) == {i \in Grants(ds) : ds[i].project # None}

\* The elements of ds at the indices of idx, in the order of ds.
RECURSIVE Pick(_, _, _)
Pick(ds, idx, i) ==
    IF i > Len(ds) THEN <<>>
    ELSE (IF i \in idx THEN <<ds[i]>> ELSE <<>>) \o Pick(ds, idx, i + 1)
CarriedFilters(ds) ==
    LET kept == Pick(ds, FilterGrants(ds), 1) IN [i \in 1..Len(kept) |-> kept[i].filter[1]]
CarriedProjects(ds) ==
    LET kept == Pick(ds, ProjectGrants(ds), 1) IN [i \in 1..Len(kept) |-> kept[i].project[1]]

\* C1: globalWhen cannot be bypassed: whenever the configured globalWhen
\* returns false for the params of a can call, on a role or on a role list,
\* a call that completes with a decision has permission = false, whether the
\* match is on the role itself, on an inherited role or in a multi-role query.
C1_GlobalWhenNotBypassed ==
    \A f \in FrameIds :
        (Decided(f) /\ GlobalWhenReturnsFalse(frames[f].params))
            => ~frames[f].result.permission

\* A multi-role query has completed while globalWhen returned false, and a
\* role reached through inheritance matched an entry with no when of its own.
C1_Witness ==
    /\ frames # <<>>
    /\ IsMulti(1) /\ frames[1].parent = 0 /\ Decided(1)
    /\ GlobalWhenReturnsFalse(frames[1].params)
    /\ \E g \in FrameIds : \E h \in FrameIds :
          /\ frames[g].pc = "done" /\ frames[g].children # <<>> /\ IsSingle(g)
          /\ IsSingle(h) /\ frames[h].depth > frames[g].depth
          /\ frames[h].operationCan.src = "exact"
          /\ frames[h].operationCan.when = Undefined
          /\ Decided(h)

\* An invocation that found room on the stack, and so ran the body of can().
Ran(f) == frames[f].depth <= MaxDepth

GeneratorValue(fn, params) == IF fn = Undefined THEN None ELSE EvalGenerator(fn, params).value

\* C2: for a role name that is not in the compiled role map, and for a known
\* role with no exact or wildcard entry matching the operation and no
\* inherited roles, can resolves at once to { permission: false }, without an
\* error and without calling a when, filter, project or global function.
C2_NoMatchDenies ==
    \A f \in FrameIds :
        (/\ IsSingle(f) /\ Ran(f)
         /\ frames[f].operation # NotAString
         /\ \/ ~KnownRole(frames[f].role.name)
            \/ /\ ~DeclaresExactly(frames[f].role.name, frames[f].operation)
               /\ ~HasMatchingWildcard(frames[f].role.name, frames[f].operation)
               /\ ItemOf(frames[f].role.name).inherits = <<>>)
        => /\ frames[f].pc = "done"
           /\ frames[f].result = Deny
           /\ frames[f].invoked = <<>>

\* C3: when a role has an exact entry for the operation and a wildcard entry
\* that matches it, the exact entry is the one evaluated: its functions are
\* the ones called, and the decision is computed from its when, filter and
\* project, whatever the order of the two in the can list.
C3_ExactBeforeWildcard ==
    \A f \in FrameIds :
        (/\ IsSingle(f) /\ Ran(f)
         /\ frames[f].operation # NotAString
         /\ KnownRole(frames[f].role.name)
         /\ DeclaresExactly(frames[f].role.name, frames[f].operation)
         /\ HasMatchingWildcard(frames[f].role.name, frames[f].operation))
        => LET e == ExactEntry(frames[f].role.name, frames[f].operation)
               p == frames[f].params
           IN /\ frames[f].operationCan = Found("exact", e.name, e.when, e.filter, e.project)
              /\ frames[f].invoked = InvokedFunctions(e, options)
              /\ Decided(f) =>
                    frames[f].result =
                        Decision(WhenValue(e.when, p) /\ WhenValue(options.globalWhen, p),
                                 MergeOverlay(GeneratorValue(options.globalFilter, p), GeneratorValue(e.filter, p)),
                                 MergeOverlay(GeneratorValue(options.globalProject, p), GeneratorValue(e.project, p)))

\* The wildcard is declared before the exact entry, the two carry different
\* conditions, and the call was granted where the wildcard's when denies.
C3_Witness ==
    /\ frames # <<>> /\ IsSingle(1) /\ Decided(1)
    /\ Len(config) = 1 /\ config[1].role = frames[1].role.name
    /\ Len(config[1].can) = 2
    /\ hasWildcard(config[1].can[1].name)
    /\ RegExpTest(wildcardRegex(config[1].can[1].name), frames[1].operation)
    /\ config[1].can[2].name = frames[1].operation
    /\ config[1].can[1].when # Undefined
    /\ ~WhenValue(config[1].can[1].when, frames[1].params)
    /\ frames[1].result.permission

\* The three roles of the call of f form a chain C inherits B inherits A in
\* which only A has an entry for the operation, an unconditional one.
ChainOnlyLastGrants(c, operation) ==
    /\ KnownRole(c)
    /\ operation \notin ObjectPrototypeKeys
    /\ ~DeclaresExactly(c, operation) /\ ~HasMatchingWildcard(c, operation)
    /\ \E b \in {roles[i].role : i \in 1..Len(roles)} \ {c} :
          /\ ItemOf(c).inherits = <<b>>
          /\ ~DeclaresExactly(b, operation) /\ ~HasMatchingWildcard(b, operation)
          /\ \E a \in {roles[i].role : i \in 1..Len(roles)} \ {b, c} :
                /\ ItemOf(b).inherits = <<a>>
                /\ DeclaresExactly(a, operation)
                /\ ExactEntry(a, operation).when = Undefined
                /\ ExactEntry(a, operation).filter = Undefined
                /\ ExactEntry(a, operation).project = Undefined

\* No global function fails for params, and globalWhen does not deny.
GlobalsAllow(params) ==
    /\ ~(IsFunction(options.globalWhen) /\ EvalWhen(options.globalWhen, params).throws)
    /\ ~(IsFunction(options.globalFilter) /\ EvalGenerator(options.globalFilter, params).throws)
    /\ ~(IsFunction(options.globalProject) /\ EvalGenerator(options.globalProject, params).throws)
    /\ ~GlobalWhenReturnsFalse(params)

\* C4: inheritance is transitive: for a chain C inherits B inherits A in
\* which only A has an (unconditional) entry for the operation, can(C, op,
\* params) resolves to permission = true (no global function failing or
\* denying).
C4_InheritanceTransitive ==
    \A f \in FrameIds :
        (/\ IsSingle(f) /\ Ran(f)
         /\ frames[f].pc = "done"
         /\ frames[f].operation # NotAString
         /\ ChainOnlyLastGrants(frames[f].role.name, frames[f].operation)
         /\ GlobalsAllow(frames[f].params))
        => Decided(f) /\ frames[f].result.permission

\* C5: in a multi-role query, if at least one listed role resolves to an
\* unconditional grant (permission = true, no filter, no project), the query
\* returns that grant, whatever the other listed roles grant with, and no
\* merge reducer is needed or called.
C5_UnconditionalGrantWins ==
    \A f \in FrameIds :
        (/\ AllRolesDecided(f)
         /\ frames[f].pc = "done"
         /\ UnconditionalGrants(RoleDecisions(f)) # {})
        => /\ frames[f].result = Decision(TRUE, None, None)
           /\ frames[f].merges = <<>>

\* A role granting with a filter is listed before the role granting
\* unconditionally, and no reducer is configured.
C5_Witness ==
    \E f \in FrameIds :
        /\ AllRolesDecided(f) /\ Decided(f)
        /\ options.mergeFilters = Undefined /\ options.mergeProjections = Undefined
        /\ \E i \in FilterGrants(RoleDecisions(f)) :
              \E j \in UnconditionalGrants(RoleDecisions(f)) : i < j

\* C6: a multi-role query that completes returns permission = true exactly
\* when at least one listed role, resolved on its own for the same operation
\* and params, yields permission = true; if none does, it returns
\* { permission: false } with no filter and no project.
C6_MultiRolePermission ==
    \A f \in FrameIds :
        (IsMulti(f) /\ Decided(f))
        => /\ AllRolesDecided(f)
           /\ frames[f].result.permission <=> (Grants(RoleDecisions(f)) # {})
           /\ (Grants(RoleDecisions(f)) = {}) => (frames[f].result = Deny)

\* One listed role denies while carrying a filter, another one grants, and
\* the query is granted.
C6_Witness ==
    \E f \in FrameIds :
        /\ IsMulti(f) /\ Decided(f) /\ frames[f].result.permission
        /\ \E i \in 1..Len(frames[f].children) :
              /\ ~RoleDecisions(f)[i].permission
              /\ RoleDecisions(f)[i].filter # None

\* The calls of a reducer an invocation made.
CallsOf(f, reducer) == SelectSeq(frames[f].merges, LAMBDA c : c.fn = reducer)

C8_SinglePayloadNeedsNoReducer ==
    \A f \in FrameIds :
        (/\ AllRolesDecided(f)
         /\ frames[f].pc = "done"
         /\ UnconditionalGrants(RoleDecisions(f)) = {}
         /\ Grants(RoleDecisions(f)) # {}
         /\ Cardinality(FilterGrants(RoleDecisions(f))) <= 1
         /\ Cardinality(ProjectGrants(RoleDecisions(f))) <= 1)
        => /\ Decided(f)
           /\ frames[f].result.permission
           /\ frames[f].result.filter =
                 (IF FilterGrants(RoleDecisions(f)) = {} THEN None
                  ELSE Some(CarriedFilters(RoleDecisions(f))[1]))
           /\ frames[f].result.project =
                 (IF ProjectGrants(RoleDecisions(f)) = {} THEN None
                  ELSE Some(CarriedProjects(RoleDecisions(f))[1]))

\* C9 (as stated): in a multi-role query where more than one granting result
\* carries a filter and mergeFilters is configured, mergeFilters is called
\* exactly once, with the filters carried in the order of the role list and
\* the operation, and what it returns is the decision's filter; it is never
\* called when at most one granting result carries a filter.  (Stated for the
\* queries that complete with a decision.)
C9_Original ==
    \A f \in FrameIds :
        (AllRolesDecided(f) /\ Decided(f))
        => LET carried == CarriedFilters(RoleDecisions(f))
           IN /\ (Len(carried) > 1 /\ options.mergeFilters # Undefined)
                   => /\ CallsOf(f, "mergeFilters") =
                            <<[fn |-> "mergeFilters", args |-> carried, op |-> frames[f].operation]>>
                      /\ frames[f].result.filter = Some(Merged(carried, frames[f].operation))
              /\ (Len(carried) <= 1) => (CallsOf(f, "mergeFilters") = <<>>)

\* C9 (amended): the call of mergeFilters is made, once and as stated, in the
\* queries that have no unconditional grant and complete with a decision;
\* mergeFilters is not called when a granting result is unconditional, when
\* at most one granting result carries a filter, or when the query rejects.
C9_MergeFiltersCalledOnce ==
    \A f \in FrameIds :
        (AllRolesDecided(f) /\ frames[f].pc = "done")
        => LET carried == CarriedFilters(RoleDecisions(f))
           IN IF /\ Len(carried) > 1
                 /\ options.mergeFilters # Undefined
                 /\ UnconditionalGrants(RoleDecisions(f)) = {}
                 /\ Decided(f)
              THEN /\ CallsOf(f, "mergeFilters") =
                         <<[fn |-> "mergeFilters", args |-> carried, op |-> frames[f].operation]>>
                   /\ frames[f].result.filter = Some(Merged(carried, frames[f].operation))
              ELSE CallsOf(f, "mergeFilters") = <<>>

\* Roles b and a, queried in this order, both grant with a filter, and the
\* reducer was called once with b's filter before a's.
C9_Witness ==
    \E f \in FrameIds :
        /\ AllRolesDecided(f) /\ Decided(f)
        /\ frames[f].role.list = <<"b", "a">>
        /\ Len(CallsOf(f, "mergeFilters")) = 1
        /\ CallsOf(f, "mergeFilters")[1].args =
              <<RoleDecisions(f)[1].filter[1], RoleDecisions(f)[2].filter[1]>>
        /\ RoleDecisions(f)[1].filter # RoleDecisions(f)[2].filter

\* C10: for a single-role query that finds a matching entry, the permission
\* returned is (what the entry's when returns) AND (what globalWhen returns),
\* an absent when or globalWhen counting as true.
C10_PermissionIsConjunction ==
    \A f \in FrameIds :
        (IsSingle(f) /\ Decided(f) /\ frames[f].operationCan.src # "none")
        => frames[f].result.permission =
              (WhenValue(frames[f].operationCan.when, frames[f].params)
               /\ WhenValue(options.globalWhen, frames[f].params))

\* The entry's own when returned false while globalWhen returned true.
C10_Witness ==
    \E f \in FrameIds :
        /\ IsSingle(f) /\ Decided(f)
        /\ frames[f].operationCan.when # Undefined
        /\ options.globalWhen # Undefined
        /\ ~WhenValue(frames[f].operationCan.when, frames[f].params)
        /\ WhenValue(options.globalWhen, frames[f].params)
        /\ ~frames[f].result.permission

\* The keys of an optional payload, and the value it has for a key.
KeysOf(payload) == IF payload = None THEN {} ELSE {kv[1] : kv \in payload[1].fields}
ValueAt(payload, key) == (CHOOSE kv \in payload[1].fields : kv[1] = key)[2]

\* The overlay of a global and a local payload as C11 words it: absent when
\* both are absent, else an object with the keys of both, the local value for
\* the keys the local payload has and the global value for the others.
IsOverlayOf(merged, global, local) ==
    IF global = None /\ local = None THEN merged = None
    ELSE /\ merged # None
         /\ merged[1].tag = "obj"
         /\ KeysOf(merged) = KeysOf(global) \cup KeysOf(local)
         /\ Cardinality(merged[1].fields) = Cardinality(KeysOf(merged))
         /\ \A k \in KeysOf(merged) :
               ValueAt(merged, k) = IF k \in KeysOf(local) THEN ValueAt(local, k)
                                    ELSE ValueAt(global, k)

\* A single-role invocation that found an entry and has returned a decision.
SingleDecided(f) ==
    /\ IsSingle(f) /\ Decided(f)
    /\ frames[f].operationCan.src # "none"

ErrGlobalAndOperationFilter ==
    "A global and operation filter apply. Define mergeFilters() function in RBAC options."

\* C12: for a single-role query in which both globalFilter and the matched
\* entry's filter yield a payload while mergeFilters is not configured, can
\* rejects with 'A global and operation filter apply. Define mergeFilters()
\* function in RBAC options.' instead of returning a decision.
C12_GlobalAndLocalFilterReject ==
    \A f \in FrameIds :
        (/\ IsSingle(f) /\ frames[f].pc = "done"
         /\ frames[f].operationCan.src # "none"
         /\ options.mergeFilters = Undefined
         /\ GeneratorValue(options.globalFilter, frames[f].params) # None
         /\ GeneratorValue(frames[f].operationCan.filter, frames[f].params) # None)
        => frames[f].result = Rejection(ErrGlobalAndOperationFilter)

\* Invocation g is f or was made, directly or not, by f.
RECURSIVE IsWithin(_, _)
IsWithin(g, f) ==
    \/ g = f
    \/ frames[g].parent # 0 /\ IsWithin(frames[g].parent, f)

\* What a function this invocation called settles to: slot is the name of
\* the function as recorded in invoked.
CalledOutcome(g, slot) ==
    LET oc == frames[g].operationCan
        p == frames[g].params
    IN CASE slot = "when" -> EvalWhen(oc.when, p)
         [] slot = "globalWhen" -> EvalWhen(options.globalWhen, p)
         [] slot = "filter" -> EvalGenerator(oc.filter, p)
         [] slot = "globalFilter" -> EvalGenerator(options.globalFilter, p)
         [] slot = "project" -> EvalGenerator(oc.project, p)
         [] slot = "globalProject" -> EvalGenerator(options.globalProject, p)

\* The errors of the functions this invocation called that fail.
FailingFunctions(g) ==
    {CalledOutcome(g, frames[g].invoked[i]).error :
        i \in {k \in 1..Len(frames[g].invoked) : CalledOutcome(g, frames[g].invoked[k]).throws}}

\* C13: if a when, filter or project of the matched entry or one of the
\* global functions fails during a can call, the call fails and returns no
\* decision, whatever the other evaluations give: the invocation that called
\* the function rejects with the error of a function it called, and every
\* invocation above it, a multi-role query with other granting roles
\* included, rejects with the unchanged error of one of the invocations it
\* made.
C13_FailuresPropagate ==
    \A f \in FrameIds : \A g \in FrameIds :
        (frames[f].pc = "done" /\ IsWithin(g, f) /\ FailingFunctions(g) # {})
        => /\ Rejected(f)
           /\ (g = f) => frames[f].result.error \in FailingFunctions(f)
           /\ (frames[f].children # <<>>) =>
                 \E c \in 1..Len(frames[f].children) :
                     frames[frames[f].children[c]].result = frames[f].result

\* A multi-role query rejected with the error of a filter generator although
\* the when of the same entry returns false and another listed role has
\* granted unconditionally.
C13_Witness ==
    /\ frames # <<>> /\ IsMulti(1) /\ frames[1].parent = 0 /\ Rejected(1)
    /\ \E g \in FrameIds : \E h \in FrameIds :
          /\ frames[g].parent = 1 /\ frames[h].parent = 1
          /\ Decided(h) /\ frames[h].result = Decision(TRUE, None, None)
          /\ Rejected(g)
          /\ frames[g].operationCan.when # Undefined
          /\ ~EvalWhen(frames[g].operationCan.when, frames[g].params).throws
          /\ ~EvalWhen(frames[g].operationCan.when, frames[g].params).value
          /\ EvalGenerator(frames[g].operationCan.filter, frames[g].params).throws
          /\ frames[1].result = frames[g].result

\* s[j..last] is an instance of the pattern from position i on, each '*'
\* standing for zero or more arbitrary characters and every other character
\* for itself.
RECURSIVE IsInstance(_, _, _, _, _)
IsInstance(pattern, i, s, j, last) ==
    IF i > Len(pattern) THEN j = last + 1
    ELSE IF pattern[i] = "*"
         THEN \E k \in j..(last + 1) : IsInstance(pattern, i + 1, s, k, last)
    ELSE /\ j <= last
         /\ s[j] = pattern[i]
         /\ IsInstance(pattern, i + 1, s, j + 1, last)

\* Some prefix of s is an instance of the pattern.
PrefixIsInstance(pattern, s) == \E last \in 0..Len(s) : IsInstance(pattern, 1, s, 1, last)

\* C14: a wildcard pattern matches a candidate operation name exactly when
\* some prefix of the candidate, starting at its first character, is an
\* instance of the pattern with each '*' standing for zero or more arbitrary
\* characters: for a role that declares wildcard patterns only, can finds an
\* entry for the operation exactly when one of its patterns does so.
C14_WildcardMatchesPrefixInstances ==
    \A f \in FrameIds :
        (/\ IsSingle(f) /\ Ran(f)
         /\ frames[f].operation # NotAString
         /\ KnownRole(frames[f].role.name)
         /\ ItemOf(frames[f].role.name).can = <<>>
         /\ frames[f].operation \notin ObjectPrototypeKeys)
        => LET item == ItemOf(frames[f].role.name)
           IN (frames[f].operationCan.src = "wildcard")
              <=> \E i \in 1..Len(item.canWildcards) :
                      PrefixIsInstance(item.canWildcards[i].name, frames[f].operation)

\* The keys of the roles object.
ConfigKeys == {config[i].role : i \in 1..Len(config)}

\* C17: compilation fails whenever the inherits list of some role names a
\* role that is no key of the same configuration; so in every role map that
\* was compiled, every name in every inherits list is a key of the map.
C17_InheritsAreKeys ==
    (engine = "ready")
    => /\ \A i \in 1..Len(config) : \A k \in 1..Len(config[i].inherits) :
              config[i].inherits[k] \in ConfigKeys
       /\ \A i \in 1..Len(roles) : \A k \in 1..Len(roles[i].item.inherits) :
              KnownRole(roles[i].item.inherits[k])

\* The compilation of a configuration by the class in use, from the first
\* role on an empty map.
CompileOf(v, cfg) ==
    IF v = "default" THEN DefaultBuildRoleMap(cfg, 1, <<>>) ELSE buildRoleMap(cfg, 1, <<>>)

TopLevel(f) == frames[f].parent = 0

\* C15: when the roles come as a promise or from a factory, a call of can
\* produces its decision only when the compilation has completed, the role
\* map is then the whole compiled map and neither empty nor partial, and the
\* decision is the one the fully compiled map gives.
C15_DeferredRolesDecideOnFullMap ==
    \A f \in FrameIds :
        (source \in {"promise", "factory"} /\ TopLevel(f) /\ Decided(f)) =>
            /\ engine = "ready"
            /\ CompileOf(version, config).error = ""
            /\ roles = CompileOf(version, config).roles
            /\ roles # <<>>
            /\ frames[f].result \in
                   CanOutcomes(version, CompileOf(version, config).roles, options,
                               frames[f].role, frames[f].operation, frames[f].params, 1)

\* a call issued while the promise of the roles was pending has waited and
\* then granted
C15_Witness ==
    /\ version = "default"
    /\ source = "promise"
    /\ frames # <<>>
    /\ frames[1].waited
    /\ Decided(1)
    /\ frames[1].result.permission
    /\ C15_DeferredRolesDecideOnFullMap

\* C16: an engine of RBAC.create, from a roles object, from a promise of it
\* or from a function returning a promise of it, holds the role map the
\* constructor compiles from the roles object, fails where the constructor
\* fails, and settles every call as that role map does.
C16_CreateEqualsConstructor ==
    version = "named" =>
        LET built == buildRoleMap(config, 1, <<>>)
        IN /\ engine = "ready" => (built.error = "" /\ roles = built.roles)
           /\ engine = "threw" => built.error # ""
           /\ \A f \in FrameIds :
                  (TopLevel(f) /\ frames[f].pc = "done") =>
                      frames[f].result \in
                          CanOutcomes("named", built.roles, options,
                                      frames[f].role, frames[f].operation, frames[f].params, 1)

\* an engine made by create from a factory has granted an inherited operation
C16_Witness ==
    /\ version = "named"
    /\ source = "factory"
    /\ engine = "ready"
    /\ roles = buildRoleMap(config, 1, <<>>).roles
    /\ frames # <<>>
    /\ frames[1].role = Role("b")
    /\ Decided(1)
    /\ frames[1].result.permission

\* A when, filter or project that is given and is no function.
PresentNotCallable(v) == v # Undefined /\ ~IsFunction(v)

HoldsNotCallable(p) ==
    PresentNotCallable(p.when) \/ PresentNotCallable(p.filter) \/ PresentNotCallable(p.project)

\* C18: a configuration with a permission object whose when, filter or
\* project is present and not callable never yields an engine, and no
\* compiled entry of an engine holds a when, filter or project that is
\* present and not callable.
C18_NotCallableNeverCompiled ==
    engine = "ready" =>
        /\ \A i \in 1..Len(config) : \A j \in 1..Len(config[i].can) :
               config[i].can[j].kind = "object" => ~HoldsNotCallable(config[i].can[j])
        /\ \A r \in 1..Len(roles) :
               /\ \A j \in 1..Len(roles[r].item.can) : ~HoldsNotCallable(roles[r].item.can[j])
               /\ \A j \in 1..Len(roles[r].item.canWildcards) :
                      ~HoldsNotCallable(roles[r].item.canWildcards[j])

\* C19: when the compilation of the configuration fails, no engine is ready
\* and no call of can gets further than its wait for the initialisation,
\* where it is rejected with the error of the compilation, so none reads the
\* roles compiled before the failure; when it succeeds, a ready engine holds
\* the whole compiled map and only a ready engine has run a call.
C19_CompilationAllOrNothing ==
    LET built == CompileOf(version, config)
    IN /\ built.error # "" =>
              /\ engine # "ready"
              /\ \A f \in FrameIds :
                     /\ ~Decided(f)
                     /\ frames[f].pc \in {"awaitInit", "done"}
                     /\ frames[f].pc = "done" => frames[f].result = Rejection(built.error)
       /\ built.error = "" =>
              /\ engine = "ready" => roles = built.roles
              /\ \A f \in FrameIds : frames[f].pc # "awaitInit" => engine = "ready"

\* the second role failed after the first was set in this.roles, and a call
\* for the first role was rejected with the error
C19_Witness ==
    /\ engine = "failed"
    /\ CompileOf(version, config).error # ""
    /\ roles # <<>>
    /\ Len(roles) < Len(config)
    /\ frames # <<>>
    /\ frames[1].role = Role(roles[1].role)
    /\ Rejected(1)
    /\ frames[1].result = Rejection(CompileOf(version, config).error)


\* What can does to this.roles and this.options while calls are in flight:
\* nothing.
C20_Step == frames # <<>> => (roles' = roles /\ options' = options)

\* Every call of can by the application that has settled has the outcome
\* the call gives alone on the compiled role map.
C20_State ==
    /\ engine = "ready" => roles = buildRoleMap(config, 1, <<>>).roles
    /\ \A f \in FrameIds :
           (TopLevel(f) /\ frames[f].pc = "done") =>
               frames[f].result \in
                   CanOutcomes("named", buildRoleMap(config, 1, <<>>).roles, options,
                               frames[f].role, frames[f].operation, frames[f].params, 1)

\* C20: can never changes the compiled role map or the options, and calls
\* of can interleaved at their awaits on one engine each settle with the
\* outcome the call has when it runs alone.
C20_ConcurrentCallsIndependent == []C20_State /\ [][C20_Step]_vars

\* a call made after another that is still suspended has granted, for another
\* operation or other params, and holds to what it gives alone
C20_Witness ==
    \E f \in FrameIds : \E g \in FrameIds :
        /\ f < g
        /\ TopLevel(f) /\ TopLevel(g)
        /\ frames[f].role.kind = "array" /\ frames[g].role.kind = "array"
        /\ frames[f].pc = "awaitRoles"
        /\ <<frames[f].operation, frames[f].params>> # <<frames[g].operation, frames[g].params>>
        /\ Decided(g)
        /\ frames[g].result.permission
        /\ C20_State

\* The entry of a role's own can list that answers for the operation: the
\* exact entry, else the first wildcard entry that matches.
HasOwnEntry(name, operation) ==
    DeclaresExactly(name, operation) \/ HasMatchingWildcard(name, operation)
OwnEntry(name, operation) ==
    IF DeclaresExactly(name, operation) THEN ExactEntry(name, operation)
    ELSE LET ws == ItemOf(name).canWildcards
         IN ws[CHOOSE i \in 1..Len(ws) :
                   /\ RegExpTest(ws[i].wildcard, operation)
                   /\ \A k \in 1..(i - 1) : ~RegExpTest(ws[k].wildcard, operation)]

\* C21: inherited roles are consulted only when the role has no exact or
\* wildcard entry matching the operation; with a matching own entry the
\* invocation makes no further invocation of can, calls only functions of
\* that entry and of the options, and its decision is the one of that entry
\* alone.
C21_OwnEntryShadowsInherited ==
    \A f \in FrameIds :
        (IsSingle(f) /\ frames[f].operation # NotAString /\ KnownRole(frames[f].role.name)) =>
            LET name == frames[f].role.name
                operation == frames[f].operation
            IN /\ (frames[f].children # <<>> \/ frames[f].pc = "awaitInherited")
                      => ~HasOwnEntry(name, operation)
               /\ HasOwnEntry(name, operation) =>
                      /\ \A g \in FrameIds : frames[g].parent # f
                      /\ frames[f].operationCan.when = OwnEntry(name, operation).when
                      /\ Decided(f) =>
                             frames[f].result =
                                 SingleDecision(OwnEntry(name, operation), options, frames[f].params)

\* A sequence in the opposite order.
Reverse(s) == [i \in 1..Len(s) |-> s[Len(s) + 1 - i]]

\* A result in which the arguments a reducer was called with count as a set:
\* what is left of the order in which the roles were listed is the order of
\* the reducer's arguments.
Unordered(payload) ==
    IF payload # None /\ payload[1].tag = "merged"
    THEN Some([payload[1] EXCEPT !.parts = {payload[1].parts[i] : i \in 1..Len(payload[1].parts)}])
    ELSE payload
UnorderedResult(r) == [r EXCEPT !.filter = Unordered(@), !.project = Unordered(@)]

\* The invocation f is for a known role that has no own entry for the
\* operation and inherits.
FallsBackToInherited(f) ==
    /\ IsSingle(f)
    /\ frames[f].operation # NotAString
    /\ KnownRole(frames[f].role.name)
    /\ ~HasOwnEntry(frames[f].role.name, frames[f].operation)
    /\ ItemOf(frames[f].role.name).inherits # <<>>

\* C22: for a role with no own match that inherits, can asks all the roles
\* of the inherits list as one query for several roles: every parent is
\* invoked, the outcome is an outcome of can(inherits, operation, params), it
\* is the same for the list in the opposite order, and an unconditional grant
\* of any parent is the decision when no parent fails.
C22_InheritedIsMultiRoleQuery ==
    \A f \in FrameIds :
        (FallsBackToInherited(f) /\ frames[f].depth < MaxDepth) =>
            LET inherits == ItemOf(frames[f].role.name).inherits
                outcomes == CanOutcomes("named", roles, options, RoleArray(inherits),
                                        frames[f].operation, frames[f].params, frames[f].depth + 1)
                reversed == CanOutcomes("named", roles, options, RoleArray(Reverse(inherits)),
                                        frames[f].operation, frames[f].params, frames[f].depth + 1)
            IN /\ Len(frames[f].children) = 1
               /\ frames[frames[f].children[1]].role = RoleArray(inherits)
               /\ frames[f].depth + 1 < MaxDepth =>
                      Len(frames[frames[f].children[1]].children) = Len(inherits)
               /\ frames[f].pc = "done" => frames[f].result \in outcomes
               /\ {UnorderedResult(r) : r \in outcomes} = {UnorderedResult(r) : r \in reversed}
               /\ (/\ frames[f].pc = "done"
                   /\ \A r \in outcomes : r.kind = "decision"
                   /\ \E i \in 1..Len(inherits) :
                          Decision(TRUE, None, None) \in
                              CanOutcomes("named", roles, options, Role(inherits[i]),
                                          frames[f].operation, frames[f].params, frames[f].depth + 2))
                      => frames[f].result = Decision(TRUE, None, None)

\* C23: a role with no own entry for the operation that inherits from
\* exactly one parent has the outcome the parent has when it is asked
\* itself, also when the parent's decision carries a filter or a project and
\* no reducer is configured.
C23_SingleParentTransparent ==
    \A f \in FrameIds :
        (/\ FallsBackToInherited(f)
         /\ frames[f].operation \notin ObjectPrototypeKeys
         /\ Len(ItemOf(frames[f].role.name).inherits) = 1
         /\ frames[f].pc = "done") =>
            frames[f].result \in
                CanOutcomes("named", roles, options, Role(ItemOf(frames[f].role.name).inherits[1]),
                            frames[f].operation, frames[f].params, frames[f].depth + 2)

\* C24: the decision of a query for several roles carries a filter only if
\* the decision of every role that grants carries a filter, and a project
\* only if the decision of every role that grants carries a project.
C24_NoMoreRestrictiveThanEveryGrant ==
    \A f \in FrameIds :
        (AllRolesDecided(f) /\ Decided(f)) =>
            LET ds == RoleDecisions(f)
            IN /\ frames[f].result.filter # None => \A i \in Grants(ds) : ds[i].filter # None
               /\ frames[f].result.project # None => \A i \in Grants(ds) : ds[i].project # None

\* Some role of the inherits list of the role grants the operation when the
\* list is asked as it stands.
GrantedThroughInheritance(name, operation, params, depth) ==
    /\ ItemOf(name).inherits # <<>>
    /\ \E r \in CanOutcomes("named", roles, options, RoleArray(ItemOf(name).inherits),
                            operation, params, depth + 1) : r.kind = "decision" /\ r.permission

\* C25: the exact lookup of a role finds only the names its can list declares:
\* for a known role and an operation that is neither declared exactly nor
\* matched by a wildcard of the role nor granted through inheritance, the
\* names of the members of Object.prototype included, a decision of can is
\* permission = false; and a compiled configuration names in its inherits
\* lists only keys of the configuration.
C25_OnlyDeclaredNamesMatch ==
    /\ \A f \in FrameIds :
           (/\ IsSingle(f) /\ Decided(f)
            /\ frames[f].operation # NotAString
            /\ KnownRole(frames[f].role.name)
            /\ ~HasOwnEntry(frames[f].role.name, frames[f].operation)
            /\ ~GrantedThroughInheritance(frames[f].role.name, frames[f].operation,
                                          frames[f].params, frames[f].depth))
           => ~frames[f].result.permission
    /\ engine = "ready" =>
           \A i \in 1..Len(config) : \A k \in 1..Len(config[i].inherits) :
               \E j \in 1..Len(config) : config[j].role = config[i].inherits[k]


\* Some role of the compiled map reaches itself along inherits lists.
RECURSIVE Reaches(_, _, _)
Reaches(from, to, steps) ==
    /\ steps > 0
    /\ KnownRole(from)
    /\ \E k \in 1..Len(ItemOf(from).inherits) :
           \/ ItemOf(from).inherits[k] = to
           \/ Reaches(ItemOf(from).inherits[k], to, steps - 1)
HasInheritsCycle == \E i \in 1..Len(roles) : Reaches(roles[i].role, roles[i].role, Len(roles))

\* C26: on a compiled configuration, one with a cycle of inherits included,
\* every call of can completes, with a decision or with an error, when the
\* functions of the caller complete.
C26_EveryCallCompletes ==
    (frames # <<>>) ~> (frames # <<>> /\ frames[1].pc = "done")

\* a call that went round a cycle of inherits has completed, rejected with
\* the error of the exhausted stack
C26_Witness ==
    /\ engine = "ready"
    /\ HasInheritsCycle
    /\ frames # <<>>
    /\ Len(frames) > MaxDepth
    /\ \A f \in FrameIds : frames[f].pc = "done"
    /\ frames[1].result = Rejection(ErrStack)

\* The can list a role has in the configuration, and the last of its entries
\* that declares the name exactly.
ConfiguredCan(name) == config[CHOOSE i \in 1..Len(config) : config[i].role = name].can
DeclaredTimes(name, operation) ==
    Cardinality({j \in 1..Len(ConfiguredCan(name)) : ConfiguredCan(name)[j].name = operation})
LastDeclared(name, operation) ==
    LET can == ConfiguredCan(name)
        declared == {j \in 1..Len(can) : can[j].name = operation}
    IN can[CHOOSE j \in declared : \A k \in declared : k <= j]

\* C27: of several exact entries of a can list for the same name, the
\* compiled role holds one entry, with the when, filter and project of the
\* last of them, and a decision for the name is computed from these; a bare
\* string that comes last makes the operation unconditional.
C27_LastExactEntryWins ==
    engine = "ready" =>
        /\ \A r \in 1..Len(roles) : \A j \in 1..Len(ConfiguredCan(roles[r].role)) :
               LET operation == ConfiguredCan(roles[r].role)[j].name
                   last == LastDeclared(roles[r].role, operation)
                   held == {k \in 1..Len(roles[r].item.can) : roles[r].item.can[k].name = operation}
               IN ~hasWildcard(operation) =>
                      /\ Cardinality(held) = 1
                      /\ \A k \in held :
                             /\ roles[r].item.can[k].when = last.when
                             /\ roles[r].item.can[k].filter = last.filter
                             /\ roles[r].item.can[k].project = last.project
        /\ \A f \in FrameIds :
               (/\ IsSingle(f) /\ Decided(f)
                /\ frames[f].operation # NotAString
                /\ KnownRole(frames[f].role.name)
                /\ DeclaresExactly(frames[f].role.name, frames[f].operation))
               => frames[f].result =
                      SingleDecision(LastDeclared(frames[f].role.name, frames[f].operation),
                                     options, frames[f].params)

\* the name is declared with a when that returns false and then as a bare
\* string: granted without a filter
C27_Witness ==
    /\ engine = "ready"
    /\ frames # <<>>
    /\ IsSingle(1) /\ Decided(1)
    /\ KnownRole(frames[1].role.name)
    /\ DeclaredTimes(frames[1].role.name, frames[1].operation) = 2
    /\ ConfiguredCan(frames[1].role.name)[1].when = "wFlag"
    /\ ConfiguredCan(frames[1].role.name)[1].filter = "gA"
    /\ ~frames[1].params.flag
    /\ ConfiguredCan(frames[1].role.name)[2].kind = "string"
    /\ options = NoOptions
    /\ frames[1].result = Decision(TRUE, None, None)

\* The entries of a role's can list in the configuration whose name has a
\* wildcard, in the order of the list, and the first of them whose pattern
\* matches the operation.
ConfiguredWildcards(name) ==
    SelectSeq(ConfiguredCan(name), LAMBDA p : hasWildcard(p.name))
FirstMatchingWildcard(name, operation) ==
    LET ws == ConfiguredWildcards(name)
        hits == {j \in 1..Len(ws) : RegExpTest(wildcardRegex(ws[j].name), operation)}
    IN ws[CHOOSE j \in hits : \A k \in hits : j <= k]
SeveralWildcardsMatch(name, operation) ==
    LET ws == ConfiguredWildcards(name)
    IN Cardinality({j \in 1..Len(ws) : RegExpTest(wildcardRegex(ws[j].name), operation)}) > 1

\* C28: the compiled wildcard entries of a role are the wildcard entries of
\* its can list in the order of the list; when the role has no exact entry
\* for the operation and wildcard entries match it, the decision is computed
\* from the first of them in that order, whichever pattern is more specific.
C28_FirstWildcardInDeclarationOrder ==
    engine = "ready" =>
        /\ \A r \in 1..Len(roles) :
               LET ws == ConfiguredWildcards(roles[r].role)
                   compiled == roles[r].item.canWildcards
               IN /\ Len(compiled) = Len(ws)
                  /\ \A j \in 1..Len(ws) :
                         /\ compiled[j].name = ws[j].name
                         /\ compiled[j].when = ws[j].when
                         /\ compiled[j].filter = ws[j].filter
                         /\ compiled[j].project = ws[j].project
        /\ \A f \in FrameIds :
               (/\ IsSingle(f) /\ Decided(f)
                /\ frames[f].operation # NotAString
                /\ KnownRole(frames[f].role.name)
                /\ ~DeclaresExactly(frames[f].role.name, frames[f].operation)
                /\ SeveralWildcardsMatch(frames[f].role.name, frames[f].operation))
               => frames[f].result =
                      SingleDecision(FirstMatchingWildcard(frames[f].role.name, frames[f].operation),
                                     options, frames[f].params)


\* C29: the error 'something went wrong' is unreachable: on every compiled
\* role, for every operation for which the no-match test is false, the
\* retrieval of the matched entry yields an entry, and no invocation of can
\* ends with that error.
C29_InternalFaultUnreachable ==
    /\ \A f \in FrameIds : frames[f].result # Rejection(ErrInternal)
    /\ \A r \in 1..Len(roles) : \A operation \in Operations :
           ~NoMatch(roles[r].item, operation) => OperationCan(roles[r].item, operation).src # "none"

\* the no-match test was false for a wildcard entry alone, the entry was
\* retrieved and the call decided
C29_Witness ==
    /\ frames # <<>>
    /\ IsSingle(1) /\ Decided(1)
    /\ KnownRole(frames[1].role.name)
    /\ ~DeclaresExactly(frames[1].role.name, frames[1].operation)
    /\ frames[1].operation \notin ObjectPrototypeKeys
    /\ ~NoMatch(ItemOf(frames[1].role.name), frames[1].operation)
    /\ frames[1].operationCan.src = "wildcard"
    /\ frames[1].operationCan.when = "wNotFlag"

\* C30: the roles function is called once and buildRoleMap runs once for an
\* engine, however many calls of can are made before or after: the counts
\* are fixed by the state of the construction alone, and while this.init is
\* pending every call stands at its await of this.init and none has run.
C30_DeferredRolesCompiledOnce ==
    /\ inits.factory = (IF source = "factory" /\ engine # "new" THEN 1 ELSE 0)
    /\ inits.compile = (IF engine \in {"ready", "failed", "threw"} THEN 1 ELSE 0)
    /\ engine = "pending" =>
           \A f \in FrameIds : TopLevel(f) /\ frames[f].pc = "awaitInit" /\ frames[f].children = <<>>
    /\ \A f \in FrameIds :
           (frames[f].waited /\ frames[f].pc # "awaitInit") => engine \in {"ready", "failed"}

\* two calls made while the roles function's promise was pending have both
\* waited and then decided, and the function was called once and buildRoleMap
\* ran once
C30_Witness ==
    /\ version = "default"
    /\ source = "factory"
    /\ inits = [factory |-> 1, compile |-> 1]
    /\ \E f \in FrameIds : \E g \in FrameIds :
           /\ f < g
           /\ TopLevel(f) /\ TopLevel(g)
           /\ frames[f].waited /\ frames[g].waited
           /\ Decided(f) /\ Decided(g)
           /\ frames[f].result.permission /\ frames[g].result.permission
====
